---- MODULE Spec2Model ----
(***************************************************************************)
(* A model of duckdq: properties, operators, the SQL engine, the analysis  *)
(* runner, the state merge algebra and the check evaluator.                *)
(*                                                                         *)
(* Conventions                                                             *)
(*   - an Optional[str] is a sequence: <<>> is None, <<s>> is the str s;   *)
(*   - a Python float/int is a record [t, n, d]: t = "num" is the rational *)
(*     n/d in lowest terms, t = "nan" is the float NaN;                    *)
(*   - a Python call that may raise returns a record with a field          *)
(*     raised: "" when it returned, the exception's class name otherwise.  *)
(*   - eq_result also holds the identifiers of prop_a and prop_b in        *)
(*     SpecIdentifier, and analysis[FALSE] the run of SpecSketch.          *)
(*                                                                         *)
(* Specifications                                                          *)
(*   - SpecCheck: checks are added to a suite and evaluated on a metric    *)
(*     map;                                                                *)
(*   - SpecEq: two properties are compared with Property.__eq__;           *)
(*   - SpecMerge: stored states of one property are collected and merged;  *)
(*   - SpecRun: do_analysis_run on one table, with and without sharing;    *)
(*   - SpecPartition: partition runs, the merge of their states and the    *)
(*     metrics derived from it, against a direct run on the whole table;   *)
(*   - SpecCompute: compute_metrics on one table, with and without         *)
(*     sharing, with a local and with a remote repository;                 *)
(*   - SpecStored: the rows of dq_states under one property id, of any     *)
(*     state type, are collected and merged;                               *)
(*   - SpecProcesses: the same analysis run in two interpreter processes;  *)
(*   - SpecFrames: two PandasEngine instances created and run in any       *)
(*     order;                                                              *)
(*   - SpecRepo: a SQL-backed repository is constructed and written to;    *)
(*   - SpecBuild: Check objects are built one from the other and           *)
(*     evaluated on a metric map;                                          *)
(*   - SpecGrouping: compute_metrics for grouping properties over one      *)
(*     column, with and without a filter;                                  *)
(*   - SpecWhere: compute_metrics for the scan properties that accept a    *)
(*     filter, with and without it;                                        *)
(*   - SpecMatches: two partition runs for a Completeness, Compliance or   *)
(*     PatternMatch property and the merge of their states;                *)
(*   - SpecSketch: one run of a PandasEngine, the merge of its states and  *)
(*     the metrics derived from it;                                        *)
(*   - SpecIdentifier: two properties are compared and identified;         *)
(*   - SpecFrequencies: compute_metrics for grouping properties against    *)
(*     repositories in memory, on the engine's connection and on another.  *)
(***************************************************************************)
EXTENDS Integers, Sequences, FiniteSets, TLC

VARIABLES
    checks,               \* VerificationSuite._checks
    metric_map,           \* AnalyzerContext.metric_map handed to evaluate
    verification_result,  \* what VerificationSuite.evaluate returned
    prop_a,               \* left operand of Property.__eq__
    prop_b,               \* right operand of Property.__eq__
    eq_result,            \* what prop_a == prop_b returned
    loaded_states,        \* the states merge_states collected for one property
    merged,               \* what __merge_states returned for them
    engine_table,         \* the dataset table the engine reads
    run_analyzers,        \* the properties requested of do_analysis_run
    engine_implicit_cast, \* whether the database casts a number to text for length()
    analysis,             \* what do_analysis_run returned, by the engine's no_sharing
    partitions,           \* the tables of the partitions of the dataset
    verified,             \* how many partitions have been verified in a run of their own
    dq_states,            \* the rows of the repository table dq_states
    merged_states,        \* what StateEngine.merge_states returned
    derived,              \* what StateEngine.metrics_from_states returned
    engine_duplicate_names, \* what the database does with two result columns of one name
    compute_repo,         \* the repository handed to compute_metrics
    computed,             \* what compute_metrics returned, by the engine's no_sharing
    set_order,            \* the iteration order of the set STRING_TYPES, by process
    process_run,          \* what do_analysis_run returned, by process
    frames,               \* the data frames handed to on_data, by engine
    handled_connections,  \* ConnectionHandler.handled_connections
    connections,          \* the database connections opened: open or closed, and the view "data"
    frame_engines,        \* the PandasEngine instances created
    frame_runs,           \* what do_verification_run did on each PandasEngine
    repo_run_id,          \* SQLMetadataRepository.run_id
    uuids_minted,         \* how many uuid4 values have been drawn
    dq_validation_runs,   \* the rows of the repository table dq_validation_runs
    repo_rows,            \* the rows written to dq_states, dq_metrics and dq_checks
    built,                \* the Check objects made one from the other, oldest first
    built_results         \* what Check.evaluate returned for each of them

checkVars == <<checks, metric_map, verification_result>>
eqVars == <<prop_a, prop_b, eq_result>>
mergeVars == <<loaded_states, merged>>
runVars == <<engine_table, run_analyzers, engine_implicit_cast, analysis>>

partitionVars == <<partitions, verified, dq_states, merged_states, derived>>

computeVars == <<engine_duplicate_names, compute_repo, computed>>

processVars == <<set_order, process_run>>

frameVars == <<frames, handled_connections, connections, frame_engines, frame_runs>>

repoVars == <<repo_run_id, uuids_minted, dq_validation_runs, repo_rows>>

buildVars == <<built, built_results>>

laterVars == <<buildVars>>

restVars == <<computeVars, processVars, frameVars, repoVars, laterVars>>

vars == <<checkVars, eqVars, mergeVars, runVars, partitionVars, restVars>>

(***************************************************************************)
(* Bounds of the model                                                     *)
(***************************************************************************)
MaxChecks == 2
MaxConstraints == 2
MaxStates == 3
MaxAnalyzers == 2
MaxRows == 2
MaxPartitions == 2
MaxRuns == 2
MaxRepoRows == 3

(***************************************************************************)
(* Generic helpers                                                         *)
(***************************************************************************)
None == <<>>
Some(s) == <<s>>

Range(f) == {f[i] : i \in DOMAIN f}

SeqsUpTo(S, n) == UNION {[1..k -> S] : k \in 0..n}

NotYet == [done |-> FALSE]

(***************************************************************************)
(* Numbers: Python int and float values                                    *)
(***************************************************************************)
Abs(x) == IF x < 0 THEN -x ELSE x

RECURSIVE Gcd(_, _)
Gcd(a, b) == IF b = 0 THEN a ELSE Gcd(b, a % b)

Frac(n, d) ==
    LET g == Gcd(Abs(n), d)
    IN  [t |-> "num", n |-> n \div g, d |-> d \div g]

Num(n) == [t |-> "num", n |-> n, d |-> 1]
NaN == [t |-> "nan", n |-> 0, d |-> 1]

IsNaN(x) == x.t = "nan"

\* x > y and x < y on floats: every comparison with NaN is False
Gt(x, y) == ~IsNaN(x) /\ ~IsNaN(y) /\ x.n * y.d > y.n * x.d
Lt(x, y) == Gt(y, x)

\* x + y
Add(x, y) ==
    IF IsNaN(x) \/ IsNaN(y) THEN NaN
    ELSE Frac(x.n * y.d + y.n * x.d, x.d * y.d)

\* x - y
Sub(x, y) ==
    IF IsNaN(x) \/ IsNaN(y) THEN NaN
    ELSE Frac(x.n * y.d - y.n * x.d, x.d * y.d)

\* x / y: raises ZeroDivisionError when y is zero
Div(x, y) ==
    IF ~IsNaN(y) /\ y.n = 0 THEN [raised |-> "ZeroDivisionError", value |-> NaN]
    ELSE IF IsNaN(x) \/ IsNaN(y) THEN [raised |-> "", value |-> NaN]
    ELSE [raised |-> "",
          value |-> IF y.n > 0 THEN Frac(x.n * y.d, x.d * y.n)
                    ELSE Frac(-(x.n * y.d), x.d * (-y.n))]

\* the builtins max(a, b) and min(a, b): the first argument unless the
\* second compares strictly greater (smaller)
PyMax(a, b) == IF Gt(b, a) THEN b ELSE a
PyMin(a, b) == IF Lt(b, a) THEN b ELSE a

(***************************************************************************)
(* core/metrics.py, core/properties.py                                     *)
(***************************************************************************)
EntityOf(name) ==
    CASE name \in {"Schema", "Size", "Compliance"} -> "DATASET"
      [] name \in {"Uniqueness", "Distinctness", "UniqueValueRatio"} -> "MULTICOLUMN"
      [] name = "Correlation" -> "TWOCOLUMN"
      [] OTHER -> "COLUMN"

\* Property.__init__: name is the class name
Property(name, instance, where) ==
    [name |-> name, instance |-> instance, entity |-> EntityOf(name), where |-> where]

Size(where) == Property("Size", "*", where)

\* Compliance.__init__ and PatternMatch.__init__
Compliance(name, expression, where) ==
    Property("Compliance", name, where) @@ [expression |-> expression]

PatternMatch(column, pattern, where) ==
    Property("PatternMatch", column \o "_" \o pattern, where)
        @@ [column |-> column, pattern |-> pattern]

\* str() of the rank of a quantile
RankText(quantile) ==
    CASE quantile = Frac(1, 2) -> "0.5"
      [] quantile = Frac(1, 4) -> "0.25"
      [] OTHER -> "q"

\* Quantile.__init__ and ApproxDistinctness
Quantile(column, quantile, where) ==
    Property("Quantile", column \o "_" \o RankText(quantile), where)
        @@ [column |-> column, quantile |-> quantile]

ApproxDistinctness(column, where) ==
    Property("ApproxDistinctness", column, where) @@ [column |-> column]

Schema == Property("Schema", "", None)

\* Property.__eq__
PropertyEq(p, q) ==
    /\ p.name = p.name
    /\ p.instance = q.instance
    /\ p.entity = q.entity
    /\ p.where = q.where

\* the string Property.__hash__ digests
HashString(p) ==
    p.name \o p.instance \o p.entity \o (IF p.where = None THEN "" ELSE p.where[1])

\* Property.__hash__: the SHA-1 digest of HashString, reduced mod 10^16. The
\* digest is kept symbolic: it is the digested string, so that two properties
\* have one hash exactly when they have one HashString.
PropertyHash(p) == HashString(p)

\* Property.property_identifier
property_identifier(p) == PropertyHash(p)

\* Property.filter_identifier
filter_identifier(p) == IF p.where = None THEN "" ELSE "#" \o p.where[1]

\* dict and set membership of a Property key: equal hash and __eq__
SameKey(p, q) == PropertyHash(p) = PropertyHash(q) /\ PropertyEq(p, q)

(***************************************************************************)
(* Metrics: core/metrics.py, utils/metrics_helper.py                       *)
(***************************************************************************)
Success(v) == [isSuccess |-> TRUE, value |-> v, message |-> ""]
Failure(msg) == [isSuccess |-> FALSE, value |-> NaN, message |-> msg]

Metric(entity, name, instance, value) ==
    [entity |-> entity, name |-> name, instance |-> instance, value |-> value]

metric_from_value(value, name, instance, entity) ==
    Metric(entity, name, instance, Success(value))

metric_from_failure(msg, analyzer) ==
    Metric(analyzer.entity, analyzer.name, analyzer.instance, Failure(msg))

\* Mapping[Property, Metric].get(analyzer, None): <<>> is None
MapGet(m, analyzer) ==
    IF \E k \in DOMAIN m : SameKey(k, analyzer)
    THEN Some(m[CHOOSE k \in DOMAIN m : SameKey(k, analyzer)])
    ELSE None

(***************************************************************************)
(* constraints.py                                                          *)
(***************************************************************************)
MISSING_ANALYSIS_MSG == "Missing Analysis, can't run the constraint!"
ASSERTION_EXCEPTION_MSG == "Can't execute the assertion"

\* The user's assertion callables of the model: checks.is_one,
\* checks.is_approx_one, a callable `lambda v: v > 0`, and a callable that
\* raises. Any other value handed over as the assertion is the repr of an
\* object that is not callable.
Assertions == {"is_one", "is_approx_one", "is_positive", "raises"}

is_one(value) == ~IsNaN(value) /\ value.n = 1 /\ value.d = 1

is_approx_one(value) == Gt(value, Frac(99, 100)) /\ ~Gt(value, Num(1))

\* AnalysisBasedConstraint._run_assertion: [raised, ok, message], message
\* the str() of the exception the assertion raised
run_assertion(assertion, assert_on) ==
    CASE assertion = "is_one" -> [raised |-> "", ok |-> is_one(assert_on), message |-> ""]
      [] assertion = "is_approx_one" ->
            [raised |-> "", ok |-> is_approx_one(assert_on), message |-> ""]
      [] assertion = "is_positive" ->
            [raised |-> "", ok |-> Gt(assert_on, Num(0)), message |-> ""]
      [] assertion = "raises" ->
            [raised |-> "ConstraintAssertionException", ok |-> FALSE, message |-> "boom"]
      [] OTHER -> [raised |-> "ConstraintAssertionException", ok |-> FALSE,
                   message |-> "object is not callable"]

\* NamedConstraint(AnalysisBasedConstraint(analyzer, assertion, hint), name)
Constraint(name, analyzer, assertion) ==
    [name |-> name, analyzer |-> analyzer, assertion |-> assertion]

ConstraintResult(constraint, status, message, metric) ==
    [constraint |-> constraint, status |-> status, message |-> message, metric |-> metric]

\* AnalysisBasedConstraint(analyzer, assertion, hint) under its name
HintedConstraint(name, analyzer, assertion, hint) ==
    [name |-> name, analyzer |-> analyzer, assertion |-> assertion, hint |-> hint]

\* `self._hint or ""`
HintOf(c) == IF "hint" \in DOMAIN c /\ c.hint # None THEN c.hint[1] ELSE ""

\* a result of _pick_value_and_assert that takes an exception of the
\* assertion for a false answer
AssertedLosingException(c, metric, r) ==
    IF r.ok
    THEN ConstraintResult(c, "SUCCESS", "", Some(metric))
    ELSE ConstraintResult(c, "FAILURE",
                          "does not meet the constraint requirement. " \o HintOf(c),
                          Some(metric))

\* the result of _pick_value_and_assert once the assertion was run
Asserted(c, metric, r) ==
    IF r.raised # ""
    THEN ConstraintResult(c, "FAILURE", ASSERTION_EXCEPTION_MSG \o ": " \o r.message,
                          Some(metric))
    ELSE IF r.ok
    THEN ConstraintResult(c, "SUCCESS", "", Some(metric))
    ELSE ConstraintResult(c, "FAILURE",
                          "does not meet the constraint requirement. " \o HintOf(c),
                          Some(metric))

\* AnalysisBasedConstraint._pick_value_and_assert: [result, calls], calls
\* the values the user's assertion was invoked on
PickValueAndAssert(c, metric) ==
    IF metric.value.isSuccess
    THEN [result |-> Asserted(c, metric, run_assertion(c.assertion, metric.value.value)),
          calls |-> <<metric.value.value>>]
    ELSE [result |-> ConstraintResult(c, "FAILURE", metric.value.message, Some(metric)),
          calls |-> <<>>]

pick_value_and_assert(c, metric) == PickValueAndAssert(c, metric).result

\* an evaluate that runs the assertion on NaN when the metric is missing
ConstraintEvaluatedOnDefault(c, analysis_result) ==
    LET metric == MapGet(analysis_result, c.analyzer)
    IN  IF metric = None
        THEN PickValueAndAssert(c, metric_from_value(NaN, c.analyzer.name,
                                    c.analyzer.instance, c.analyzer.entity))
        ELSE PickValueAndAssert(c, metric[1])

\* ConstraintDecorator.evaluate over AnalysisBasedConstraint.evaluate:
\* [result, calls]
ConstraintEvaluated(c, analysis_result) ==
    LET metric == MapGet(analysis_result, c.analyzer)
    IN  IF metric = None
        THEN [result |-> ConstraintResult(c, "FAILURE", MISSING_ANALYSIS_MSG, None),
              calls |-> <<>>]
        ELSE PickValueAndAssert(c, metric[1])

ConstraintEvaluate(c, analysis_result) == ConstraintEvaluated(c, analysis_result).result

(***************************************************************************)
(* checks.py                                                               *)
(***************************************************************************)
\* CheckStatus (an IntEnum)
SUCCESS == 0
WARNING == 1
ERROR == 2

CheckLevels == {"WARNING", "EXCEPTION"}

Check(level, description, constraints) ==
    [level |-> level, description |-> description, constraints |-> constraints]

\* an add_constraint that keeps only the new constraint
AddConstraintReplacing(check, constraint) ==
    Check(check.level, check.description, <<constraint>>)

\* Check.add_constraint
AddConstraint(check, constraint) ==
    Check(check.level, check.description, Append(check.constraints, constraint))

\* the status Check.evaluate derives from the constraint results
CheckStatusIgnoringLevel(level, any_failures) ==
    IF any_failures THEN ERROR ELSE SUCCESS

CheckStatusOf(level, any_failures) ==
    IF any_failures /\ level = "EXCEPTION" THEN ERROR
    ELSE IF any_failures /\ level = "WARNING" THEN WARNING
    ELSE SUCCESS

\* Check.evaluate
CheckEvaluate(check, context) ==
    LET constraint_results ==
            [i \in 1..Len(check.constraints) |->
                ConstraintEvaluate(check.constraints[i], context)]
        any_failures ==
            \E i \in 1..Len(constraint_results) : constraint_results[i].status = "FAILURE"
    IN  [check |-> check,
         status |-> CheckStatusOf(check.level, any_failures),
         constraint_results |-> constraint_results]

(***************************************************************************)
(* verification_suite.py                                                   *)
(***************************************************************************)
MaxOf(S) == CHOOSE x \in S : \A y \in S : y <= x

\* the status VerificationSuite.evaluate derives from the check results
VerificationStatusOfLast(cs, check_results) ==
    IF cs = <<>> THEN SUCCESS ELSE check_results[cs[Len(cs)]].status

VerificationStatus(cs, check_results) ==
    IF DOMAIN check_results = {} THEN SUCCESS
    ELSE MaxOf({check_results[c].status : c \in DOMAIN check_results})

\* VerificationSuite.evaluate
SuiteEvaluate(cs, analysis_context) ==
    LET check_results == [c \in Range(cs) |-> CheckEvaluate(c, analysis_context)]
    IN  [done |-> TRUE,
         status |-> VerificationStatus(cs, check_results),
         check_results |-> check_results,
         metrics |-> analysis_context]

(***************************************************************************)
(* core/states.py                                                          *)
(***************************************************************************)
SchemaState(id, schema) == [variant |-> "SchemaState", id |-> id, schema |-> schema]
MaxState(id, max_value) == [variant |-> "MaxState", id |-> id, max_value |-> max_value]
MeanState(id, total, count) ==
    [variant |-> "MeanState", id |-> id, total |-> total, count |-> count]
MinState(id, min_value) == [variant |-> "MinState", id |-> id, min_value |-> min_value]
NumMatches(id, num_matches) ==
    [variant |-> "NumMatches", id |-> id, num_matches |-> num_matches]
NumMatchesAndCount(id, num_matches, count) ==
    [variant |-> "NumMatchesAndCount", id |-> id, num_matches |-> num_matches, count |-> count]
QuantileState(id, serializedKll, quantile, sketch_type) ==
    [variant |-> "QuantileState", id |-> id, serializedKll |-> serializedKll,
     quantile |-> quantile, sketch_type |-> sketch_type]
ApproxDistinctState(id, serializedHll, estimate, num_rows) ==
    [variant |-> "ApproxDistinctState", id |-> id, serializedHll |-> serializedHll,
     estimate |-> estimate, num_rows |-> num_rows]
SumState(id, sum_value) == [variant |-> "SumState", id |-> id, sum_value |-> sum_value]
FrequenciesAndNumRows(id, frequencies_table, grouping_columns, num_rows) ==
    [variant |-> "FrequenciesAndNumRows", id |-> id, frequencies_table |-> frequencies_table,
     grouping_columns |-> grouping_columns, num_rows |-> num_rows]

(***************************************************************************)
(* The dataset table and the SQL the engine issues                         *)
(*                                                                         *)
(* A table is [schema, rows]: schema maps a column to its type, a row maps *)
(* a column to a number or to NULL. An aggregation fragment is             *)
(* [sql, fn, col, where]: sql is the text the operator builds (two         *)
(* fragments are one element of a set exactly when their texts are equal)  *)
(* and fn, col, where say what the text computes.                          *)
(***************************************************************************)
NULL == [t |-> "null", n |-> 0, d |-> 1]
IsNull(v) == v.t = "null"

\* the value of a where filter on a row: a comparison with NULL is not true
WhereHolds(where, row) ==
    CASE where = "" -> TRUE
      [] where = "att1 > 1" -> ~IsNull(row["att1"]) /\ Gt(row["att1"], Num(1))
      [] where = "att1 > 2" -> ~IsNull(row["att1"]) /\ Gt(row["att1"], Num(2))
      [] where = "att1 > 0" -> ~IsNull(row["att1"]) /\ Gt(row["att1"], Num(0))
      [] where = "(att1 > 0) AND (att1 > 1)" ->
            ~IsNull(row["att1"]) /\ Gt(row["att1"], Num(1))
      [] where = "regexp_full_match(att1,'2')" -> row["att1"] = Num(2)
      [] where = "(att1 > 0) AND (regexp_full_match(att1,'2'))" -> row["att1"] = Num(2)
      [] where = "count >= 1" -> ~Lt(row["count"], Num(1))
      [] where = "count = 1" -> row["count"] = Num(1)
      [] OTHER -> FALSE

\* the columns a where filter reads
WhereColumns(where) ==
    CASE where = "" -> {}
      [] where \in {"count >= 1", "count = 1"} -> {"count"}
      [] OTHER -> {"att1"}

\* the fragment `<expr> as <alias>`
Agg(expr, alias, fn, col, where) ==
    [sql |-> expr \o " as " \o alias, alias |-> alias, fn |-> fn, col |-> col,
     where |-> where]

RECURSIVE SumSeq(_)
SumSeq(values) == IF values = <<>> THEN Num(0) ELSE Add(values[1], SumSeq(Tail(values)))

\* the number of characters of the text of a value
TextLength(v) == IF v.n >= 10 THEN Num(2) ELSE Num(1)

\* SQL MIN and MAX over the non-NULL values, NULL when there is none
SqlMin(values) ==
    IF values = {} THEN NULL ELSE CHOOSE v \in values : \A w \in values : ~Lt(w, v)
SqlMax(values) ==
    IF values = {} THEN NULL ELSE CHOOSE v \in values : \A w \in values : ~Gt(w, v)

\* the value of one aggregation over the rows of a table: [raised, value]
EvalAgg(agg, table, implicit_cast) ==
    LET rows == table.rows
        filtered == SelectSeq(rows, LAMBDA r : WhereHolds(agg.where, r))
        of_col == [i \in 1..Len(filtered) |-> filtered[i][agg.col]]
        non_null == SelectSeq(of_col, LAMBDA v : ~IsNull(v))
        ok(v) == [raised |-> "", value |-> v]
    IN  IF agg.fn = "syntax_error" THEN [raised |-> "ParserException", value |-> NULL]
        ELSE IF ~(((IF agg.col = "*" THEN {} ELSE {agg.col}) \cup WhereColumns(agg.where))
                    \subseteq DOMAIN table.schema)
        THEN [raised |-> "BinderException", value |-> NULL]
        ELSE IF agg.fn \in {"min_length", "max_length", "count_match"}
                /\ table.schema[agg.col] # "VARCHAR" /\ ~implicit_cast
        THEN [raised |-> "BinderException", value |-> NULL]
        ELSE CASE agg.fn = "count_star" -> ok(Num(Len(rows)))
               [] agg.fn \in {"count_where", "count_match"} ->
                    IF rows = <<>> THEN ok(NULL) ELSE ok(Num(Len(filtered)))
               [] agg.fn = "count_null" ->
                    IF rows = <<>> THEN ok(NULL)
                    ELSE ok(Num(Len(SelectSeq(of_col, LAMBDA v : IsNull(v)))))
               [] agg.fn = "sum" ->
                    IF non_null = <<>> THEN ok(NULL) ELSE ok(SumSeq(non_null))
               [] agg.fn = "min" -> ok(SqlMin(Range(non_null)))
               [] agg.fn = "max" -> ok(SqlMax(Range(non_null)))
               [] agg.fn = "min_length" ->
                    ok(SqlMin({TextLength(v) : v \in Range(non_null)}))
               [] agg.fn = "max_length" ->
                    ok(SqlMax({TextLength(v) : v \in Range(non_null)}))

\* SQLEngine.execute_and_fetch of `SELECT <aggregations> FROM <table>`: the
\* one result row, a set of [alias, value], or the error of an aggregation
\* that fails. Fragments of different text and one alias give result columns
\* of one name: a database that renames them ("renamed") keeps the name for
\* one of them, in the order of the joined set; under a database that keeps
\* them ("kept") result_df[name] is a frame and result_df[name][0] raises
\* KeyError, as if the column were missing.
ExecuteSelect(aggregations, table, implicit_cast, duplicate_names) ==
    LET results == [a \in aggregations |-> EvalAgg(a, table, implicit_cast)]
        failing == {a \in aggregations : results[a].raised # ""}
        twice == {a.alias : a \in {b \in aggregations :
                                    \E c \in aggregations : c.alias = b.alias /\ c # b}}
    IN  IF failing # {}
        THEN [raised |-> results[CHOOSE a \in failing : TRUE].raised, row |-> {}]
        ELSE [raised |-> "",
              row |-> {[alias |-> a.alias, value |-> results[a].value] :
                        a \in {b \in aggregations :
                                b.alias \notin twice
                                \/ (duplicate_names = "renamed"
                                    /\ b = CHOOSE c \in aggregations : c.alias = b.alias)}}]

\* result_df[column][0]: KeyError when the result has no such column
ResultGet(row, column) ==
    IF \E c \in row : c.alias = column
    THEN [raised |-> "", value |-> (CHOOSE c \in row : c.alias = column).value]
    ELSE [raised |-> "KeyError", value |-> NULL]

\* int(result_df[column][0]) and float(result_df[column][0]): a NULL
\* aggregate is fetched as NaN, which float() returns and int() refuses
ResultInt(row, column) ==
    LET r == ResultGet(row, column)
    IN  IF r.raised # "" THEN [raised |-> r.raised, value |-> NaN]
        ELSE IF IsNull(r.value) THEN [raised |-> "ValueError", value |-> NaN]
        ELSE [raised |-> "", value |-> r.value]

ResultFloat(row, column) ==
    LET r == ResultGet(row, column)
    IN  IF r.raised # "" THEN [raised |-> r.raised, value |-> NaN]
        ELSE IF IsNull(r.value) THEN [raised |-> "", value |-> NaN]
        ELSE [raised |-> "", value |-> r.value]

(***************************************************************************)
(* engines/sql/sql_operators.py                                            *)
(*                                                                         *)
(* An operator is [base, cls, property, aggregations, groupings, filter,   *)
(* num_rows]. The column of a single-column property is its instance; a    *)
(* multi-column property is modelled over one column, its instance.        *)
(***************************************************************************)
Where(p) == IF p.where = None THEN "" ELSE p.where[1]

ColumnsOf(p) == {p.instance}

ScanShareableOperator(cls, property, aggregations) ==
    [base |-> "ScanShareableOperator", cls |-> cls, property |-> property,
     aggregations |-> aggregations, groupings |-> {}, filter |-> None, num_rows |-> ""]

GroupingShareableOperator(cls, property, aggregations, groupings, filter) ==
    [base |-> "GroupingShareableOperator", cls |-> cls, property |-> property,
     aggregations |-> aggregations, groupings |-> groupings, filter |-> filter,
     num_rows |-> "count" \o filter_identifier(property)]

count_column(p) == "count" \o filter_identifier(p)
count_na_column(p) == p.instance \o "_count_na" \o property_identifier(p)
count_compliance_column(p) == "count_compliance" \o property_identifier(p)
count_pattern_match_column(p) == "count_pattern_match" \o property_identifier(p)
max_length_col(p) == "max_len" \o property_identifier(p)
min_length_col(p) == "min_len" \o property_identifier(p)
min_col(p) == "min" \o property_identifier(p)
max_col(p) == "max" \o property_identifier(p)
total_column(p) == "total" \o property_identifier(p)
distinct_count == "distinct_count"
unique_count == "unique_count"

SizeOperator(p) ==
    ScanShareableOperator("SizeOperator", p,
        IF p.where = None
        THEN {Agg("COUNT(*)", count_column(p), "count_star", "*", "")}
        ELSE {Agg("SUM(CASE WHEN " \o Where(p) \o " THEN 1 ELSE 0 END)",
                  count_column(p), "count_where", "*", Where(p))})

\* the operator with the NULL values counted over all rows, whatever the filter
CompletenessOperatorUnfilteredNulls(p) ==
    ScanShareableOperator("CompletenessOperator", p,
        IF p.where = None
        THEN {Agg("COUNT(*)", count_column(p), "count_star", "*", ""),
              Agg("SUM(CASE WHEN " \o p.instance \o " IS NULL THEN 1 ELSE 0 END)",
                  count_na_column(p), "count_null", p.instance, "")}
        ELSE {Agg("SUM(CASE WHEN " \o Where(p) \o " THEN 1 ELSE 0 END)",
                  count_column(p), "count_where", "*", Where(p)),
              Agg("SUM(CASE WHEN (" \o p.instance \o ") IS NULL THEN 1 ELSE 0 END)",
                  count_na_column(p), "count_null", p.instance, "")})

CompletenessOperator(p) ==
    ScanShareableOperator("CompletenessOperator", p,
        IF p.where = None
        THEN {Agg("COUNT(*)", count_column(p), "count_star", "*", ""),
              Agg("SUM(CASE WHEN " \o p.instance \o " IS NULL THEN 1 ELSE 0 END)",
                  count_na_column(p), "count_null", p.instance, "")}
        ELSE {Agg("SUM(CASE WHEN " \o Where(p) \o " THEN 1 ELSE 0 END)",
                  count_column(p), "count_where", "*", Where(p)),
              Agg("SUM(CASE WHEN (" \o Where(p) \o ") AND (" \o p.instance
                      \o ") IS NULL THEN 1 ELSE 0 END)",
                  count_na_column(p), "count_null", p.instance, Where(p))})

ComplianceOperator(p) ==
    ScanShareableOperator("ComplianceOperator", p,
        IF p.where = None
        THEN {Agg("COUNT(*)", count_column(p), "count_star", "*", ""),
              Agg("SUM(CASE WHEN (" \o p.expression \o ") THEN 1 ELSE 0 END)",
                  count_compliance_column(p), "count_where", "*", p.expression)}
        ELSE {Agg("SUM(CASE WHEN (" \o Where(p) \o ") THEN 1 ELSE 0 END)",
                  count_column(p), "count_where", "*", Where(p)),
              Agg("SUM(CASE WHEN (" \o Where(p) \o ") AND (" \o p.expression
                      \o ") THEN 1 ELSE 0 END)",
                  count_compliance_column(p), "count_where", "*",
                  "(" \o Where(p) \o ") AND (" \o p.expression \o ")")})

\* the text of the call of regexp_full_match on the column of p
PatternMatches(p) == "regexp_full_match(" \o p.column \o ",'" \o p.pattern \o "')"

PatternMatchOperator(p) ==
    ScanShareableOperator("PatternMatchOperator", p,
        IF p.where = None
        THEN {Agg("COUNT(*)", count_column(p), "count_star", "*", ""),
              Agg("SUM(CASE WHEN " \o PatternMatches(p) \o " THEN 1 ELSE 0 END)",
                  count_pattern_match_column(p), "count_match", p.column,
                  PatternMatches(p))}
        ELSE {Agg("SUM(CASE WHEN (" \o Where(p) \o ") THEN 1 ELSE 0 END)",
                  count_column(p), "count_where", "*", Where(p)),
              Agg("SUM(CASE WHEN (" \o Where(p) \o ") AND (" \o PatternMatches(p)
                      \o ") THEN 1 ELSE 0 END)",
                  count_pattern_match_column(p), "count_match", p.column,
                  "(" \o Where(p) \o ") AND (" \o PatternMatches(p) \o ")")})

DistinctnessOperator(p) ==
    GroupingShareableOperator("DistinctnessOperator", p,
        {Agg("SUM(CASE WHEN count >= 1 THEN 1 ELSE 0 END)", distinct_count,
             "count_where", "*", "count >= 1")},
        ColumnsOf(p), p.where)

UniquenessOperator(p) ==
    GroupingShareableOperator("UniquenessOperator", p,
        {Agg("SUM(CASE WHEN count = 1 THEN 1 ELSE 0 END)", unique_count,
             "count_where", "*", "count = 1")},
        ColumnsOf(p), p.where)

UniqueValueRatioOperator(p) ==
    GroupingShareableOperator("UniqueValueRatioOperator", p,
        {Agg("SUM(CASE WHEN count >= 1 THEN 1 ELSE 0 END)", distinct_count,
             "count_where", "*", "count >= 1"),
         Agg("SUM(CASE WHEN count = 1 THEN 1 ELSE 0 END)", unique_count,
             "count_where", "*", "count = 1")},
        ColumnsOf(p), p.where)

MaxLengthOperator(p) ==
    ScanShareableOperator("MaxLengthOperator", p,
        IF p.where = None
        THEN {Agg("max(length(" \o p.instance \o "))", max_length_col(p),
                  "max_length", p.instance, "")}
        ELSE {Agg("max(CASE WHEN " \o Where(p) \o " THEN length(" \o p.instance
                      \o ") ELSE NULL END)",
                  max_length_col(p), "max_length", p.instance, Where(p))})

MinLengthOperator(p) ==
    ScanShareableOperator("MinLengthOperator", p,
        IF p.where = None
        THEN {Agg("min(length(" \o p.instance \o "))", min_length_col(p),
                  "min_length", p.instance, "")}
        ELSE {Agg("min(CASE WHEN (" \o Where(p) \o ") THEN length(" \o p.instance
                      \o ") ELSE NULL END)",
                  min_length_col(p), "min_length", p.instance, Where(p))})

\* under a where filter the text has one closing parenthesis too many
MinimumOperator(p) ==
    ScanShareableOperator("MinimumOperator", p,
        IF p.where = None
        THEN {Agg("min(" \o p.instance \o ")", min_col(p), "min", p.instance, "")}
        ELSE {Agg("min(CASE WHEN (" \o Where(p) \o ") THEN " \o p.instance
                      \o ") ELSE NULL END)",
                  min_col(p), "syntax_error", p.instance, Where(p))})

MaximumOperator(p) ==
    ScanShareableOperator("MaximumOperator", p,
        IF p.where = None
        THEN {Agg("max(" \o p.instance \o ")", max_col(p), "max", p.instance, "")}
        ELSE {Agg("max(CASE WHEN (" \o Where(p) \o ") THEN " \o p.instance
                      \o " ELSE NULL END)",
                  max_col(p), "max", p.instance, Where(p))})

MeanOperator(p) ==
    ScanShareableOperator("MeanOperator", p,
        IF p.where = None
        THEN {Agg("COUNT(*)", count_column(p), "count_star", "*", ""),
              Agg("SUM(" \o p.instance \o ")", total_column(p), "sum", p.instance, "")}
        ELSE {Agg("SUM(CASE WHEN (" \o Where(p) \o ") THEN 1 ELSE 0 END)",
                  count_column(p), "count_where", "*", Where(p)),
              Agg("SUM(CASE WHEN (" \o Where(p) \o ") THEN " \o p.instance
                      \o " ELSE NULL END)",
                  total_column(p), "sum", p.instance, Where(p))})

SumOperator(p) ==
    ScanShareableOperator("SumOperator", p,
        IF p.where = None
        THEN {Agg("SUM(" \o p.instance \o ")", total_column(p), "sum", p.instance, "")}
        ELSE {Agg("SUM(CASE WHEN (" \o Where(p) \o ") THEN " \o p.instance
                      \o " ELSE NULL END)",
                  total_column(p), "sum", p.instance, Where(p))})

\* SQLOperatorFactory.create_operator: [raised, operator]. A property kind
\* the factory maps to a class that leaves the abstract methods of
\* SQLOperator undefined cannot be instantiated (TypeError); a kind the
\* factory does not map raises UnsupportedPropertyException.
\* StandardDeviation is not requested in this model.
create_operator(p) ==
    LET made(op) == [raised |-> "", operator |-> op]
    IN  CASE p.name = "Size" -> made(SizeOperator(p))
          [] p.name = "Completeness" -> made(CompletenessOperator(p))
          [] p.name = "Uniqueness" -> made(UniquenessOperator(p))
          [] p.name = "Distinctness" -> made(DistinctnessOperator(p))
          [] p.name = "UniqueValueRatio" -> made(UniqueValueRatioOperator(p))
          [] p.name = "Compliance" -> made(ComplianceOperator(p))
          [] p.name = "PatternMatch" -> made(PatternMatchOperator(p))
          [] p.name = "MaxLength" -> made(MaxLengthOperator(p))
          [] p.name = "MinLength" -> made(MinLengthOperator(p))
          [] p.name = "Minimum" -> made(MinimumOperator(p))
          [] p.name = "Maximum" -> made(MaximumOperator(p))
          [] p.name = "Mean" -> made(MeanOperator(p))
          [] p.name = "Sum" -> made(SumOperator(p))
          [] p.name \in {"Quantile", "HistogramProperty", "ApproxDistinctness"} ->
                [raised |-> "TypeError", operator |-> <<>>]
          [] p.name \in {"Entropy", "Correlation", "KllSketch"} ->
                [raised |-> "UnsupportedPropertyException", operator |-> <<>>]

\* ScanShareableOperator.extract_state of each operator class:
\* [raised, state]
extract_state(op, result_df) ==
    LET p == op.property
        id == property_identifier(p)
        fails(ex) == [raised |-> ex, state |-> <<>>]
        gives(st) == [raised |-> "", state |-> st]
        one(r, St(_)) == IF r.raised # "" THEN fails(r.raised) ELSE gives(St(r.value))
    IN  CASE op.cls = "SizeOperator" ->
                one(ResultInt(result_df, count_column(p)), LAMBDA v : NumMatches(id, v))
          [] op.cls = "CompletenessOperator" ->
                LET count == ResultInt(result_df, count_column(p))
                    count_na == ResultInt(result_df, count_na_column(p))
                IN  IF count.raised # "" THEN fails(count.raised)
                    ELSE IF count_na.raised # "" THEN fails(count_na.raised)
                    ELSE gives(NumMatchesAndCount(id, Sub(count.value, count_na.value),
                                                  count.value))
          [] op.cls = "ComplianceOperator" ->
                LET count == ResultInt(result_df, count_column(p))
                    count_compliance == ResultInt(result_df, count_compliance_column(p))
                IN  IF count.raised # "" THEN fails(count.raised)
                    ELSE IF count_compliance.raised # "" THEN fails(count_compliance.raised)
                    ELSE gives(NumMatchesAndCount(id, count_compliance.value, count.value))
          [] op.cls = "PatternMatchOperator" ->
                LET count == ResultInt(result_df, count_column(p))
                    count_pattern_match ==
                        ResultInt(result_df, count_pattern_match_column(p))
                IN  IF count.raised # "" THEN fails(count.raised)
                    ELSE IF count_pattern_match.raised # ""
                    THEN fails(count_pattern_match.raised)
                    ELSE gives(NumMatchesAndCount(id, count_pattern_match.value,
                                                  count.value))
          [] op.cls = "MaxLengthOperator" ->
                one(ResultInt(result_df, max_length_col(p)), LAMBDA v : MaxState(id, v))
          [] op.cls = "MinLengthOperator" ->
                one(ResultInt(result_df, min_length_col(p)), LAMBDA v : MinState(id, v))
          [] op.cls = "MinimumOperator" ->
                one(ResultFloat(result_df, min_col(p)), LAMBDA v : MinState(id, v))
          [] op.cls = "MaximumOperator" ->
                one(ResultFloat(result_df, max_col(p)), LAMBDA v : MaxState(id, v))
          [] op.cls = "MeanOperator" ->
                LET total == ResultFloat(result_df, total_column(p))
                    count == ResultInt(result_df, count_column(p))
                IN  IF total.raised # "" THEN fails(total.raised)
                    ELSE IF count.raised # "" THEN fails(count.raised)
                    ELSE gives(MeanState(id, total.value, count.value))
          [] op.cls = "SumOperator" ->
                one(ResultFloat(result_df, total_column(p)), LAMBDA v : SumState(id, v))

\* ScanShareableOperator.get_metric of each operator class: [raised, metric];
\* a grouping operator has no such method
get_metric(op, state) ==
    LET p == op.property
        of(v) == [raised |-> "", metric |-> metric_from_value(v, p.name, p.instance, p.entity)]
        ratio(r) == IF r.raised # "" THEN [raised |-> r.raised, metric |-> <<>>]
                    ELSE of(r.value)
    IN  CASE op.base # "ScanShareableOperator" ->
                [raised |-> "AttributeError", metric |-> <<>>]
          [] op.cls = "SizeOperator" -> of(state.num_matches)
          [] op.cls \in {"CompletenessOperator", "ComplianceOperator",
                         "PatternMatchOperator"} ->
                ratio(Div(state.num_matches, state.count))
          [] op.cls = "MaxLengthOperator" -> of(state.max_value)
          [] op.cls = "MinLengthOperator" -> of(state.min_value)
          [] op.cls = "MinimumOperator" -> of(state.min_value)
          [] op.cls = "MaximumOperator" -> of(state.max_value)
          [] op.cls = "MeanOperator" -> ratio(Div(state.total, state.count))
          [] op.cls = "SumOperator" -> of(state.sum_value)

\* GroupingShareableOperator.extract_metric of each operator class:
\* [raised, metric]
extract_metric(op, result, num_rows) ==
    LET p == op.property
        fails(ex) == [raised |-> ex, metric |-> <<>>]
        ratio(r) == IF r.raised # "" THEN fails(r.raised)
                    ELSE [raised |-> "",
                          metric |-> metric_from_value(r.value, p.name, p.instance, p.entity)]
    IN  CASE op.cls = "DistinctnessOperator" ->
                LET distinct_n == ResultInt(result, distinct_count)
                IN  IF distinct_n.raised # "" THEN fails(distinct_n.raised)
                    ELSE ratio(Div(distinct_n.value, num_rows))
          [] op.cls = "UniquenessOperator" ->
                LET unique_n == ResultInt(result, unique_count)
                IN  IF unique_n.raised # "" THEN fails(unique_n.raised)
                    ELSE ratio(Div(unique_n.value, num_rows))
          [] op.cls = "UniqueValueRatioOperator" ->
                LET distinct_n == ResultInt(result, distinct_count)
                    unique_n == ResultInt(result, unique_count)
                IN  IF distinct_n.raised # "" THEN fails(distinct_n.raised)
                    ELSE IF unique_n.raised # "" THEN fails(unique_n.raised)
                    ELSE ratio(Div(unique_n.value, distinct_n.value))

(***************************************************************************)
(* engines/sql/sql_engine.py                                               *)
(*                                                                         *)
(* An engine is [table, no_sharing, implicit_cast], a repository is        *)
(* [kind, run_id, local]. compute_metrics returns [raised, metrics,        *)
(* events]: the exception that left it ("" when it returned), the          *)
(* Property -> Metric map, and in order what it did: the operators it      *)
(* built, the queries it issued, the states it handed to register_state.   *)
(***************************************************************************)
Grouping(grouping_cols, num_rows_col, filter) ==
    [grouping_cols |-> grouping_cols, num_rows_col |-> num_rows_col, filter |-> filter]

get_num_rows_aggregation(grouping) ==
    IF grouping.filter = None \/ grouping.filter = Some("")
    THEN Agg("COUNT(*)", grouping.num_rows_col, "count_star", "*", "")
    ELSE Agg("SUM(CASE WHEN " \o grouping.filter[1] \o " THEN 1 ELSE 0 END)",
             grouping.num_rows_col, "count_where", "*", grouping.filter[1])

GroupingColumn(grouping) == CHOOSE c \in grouping.grouping_cols : TRUE

\* Grouping.identifier: the hash of the dataclass, kept symbolic
identifier(grouping) ==
    GroupingColumn(grouping) \o "|" \o grouping.num_rows_col \o "|"
        \o (IF grouping.filter = None THEN "" ELSE grouping.filter[1])

get_frequency_table_name(repo, id) == "dq_state_freq_" \o repo.run_id \o "_" \o id

DictPut(dict, key, value) ==
    [k \in DOMAIN dict \cup {key} |-> IF k = key THEN value ELSE dict[k]]

OperatorBuilt(property) == [ev |-> "create_operator", property |-> property]
Fetched(from, aggregations) ==
    [ev |-> "execute_and_fetch", from |-> from, aggregations |-> aggregations]
Stored(table, grouping, temp) ==
    [ev |-> "execute_and_store", table |-> table, grouping |-> grouping, temp |-> temp]
Registered(state) == [ev |-> "register_state", state |-> state]
TableStored(table) == [ev |-> "store_table", table |-> table]

\* one turn of the first loop of compute_metrics, after create_operator
PlanOperator(property, plan, made) ==
    IF made.raised = "UnsupportedPropertyException"
    THEN [plan EXCEPT !.metrics = DictPut(@, property,
            metric_from_failure("Property '" \o property.name
                \o "' not supported by SQL Engine.", property))]
    ELSE IF made.raised # "" THEN [plan EXCEPT !.raised = made.raised]
    ELSE IF made.operator.base = "ScanShareableOperator"
    THEN [plan EXCEPT !.events = Append(@, OperatorBuilt(property)),
                      !.scanning_operators = Append(@, made.operator)]
    ELSE IF Grouping(made.operator.groupings, made.operator.num_rows, made.operator.filter)
                \in DOMAIN plan.grouping_operator_groups
    THEN [plan EXCEPT
            !.events = Append(@, OperatorBuilt(property)),
            !.grouping_operator_groups[Grouping(made.operator.groupings,
                made.operator.num_rows, made.operator.filter)] = Append(@, made.operator)]
    ELSE [plan EXCEPT
            !.events = Append(@, OperatorBuilt(property)),
            !.groupings = Append(@, Grouping(made.operator.groupings,
                                             made.operator.num_rows, made.operator.filter)),
            !.grouping_operator_groups = @ @@
                (Grouping(made.operator.groupings, made.operator.num_rows,
                          made.operator.filter) :> <<made.operator>>)]

\* the first loop of compute_metrics: one operator per listed property
RECURSIVE PlanOperators(_, _, _)
PlanOperators(properties, i, plan) ==
    IF i > Len(properties) \/ plan.raised # "" THEN plan
    ELSE IF properties[i].name = "Schema"
    THEN PlanOperators(properties, i + 1,
                       [plan EXCEPT !.schema_property = Some(properties[i])])
    ELSE PlanOperators(properties, i + 1,
                       PlanOperator(properties[i], plan, create_operator(properties[i])))

\* record the metric the operator derived from its registered state
RecordMetric(operator, registered, metric) ==
    IF metric.raised # "" THEN [registered EXCEPT !.raised = metric.raised]
    ELSE [registered EXCEPT !.metrics = DictPut(@, operator.property, metric.metric)]

\* register the extracted state and derive the metric from it
RegisterExtracted(operator, run, extracted) ==
    IF extracted.raised # "" THEN [run EXCEPT !.raised = extracted.raised]
    ELSE RecordMetric(operator,
                      [run EXCEPT !.events = Append(@, Registered(extracted.state))],
                      get_metric(operator, extracted.state))

\* extract the operator's state from a result, register it, derive and
\* record its metric
ExtractAndRegister(operator, result_df, run) ==
    RegisterExtracted(operator, run, extract_state(operator, result_df))

\* one turn of the no_sharing loop, after the operator's query
ScanFetched(operator, queried, fetched) ==
    IF fetched.raised # "" THEN [queried EXCEPT !.raised = fetched.raised]
    ELSE ExtractAndRegister(operator, fetched.row,
                            [queried EXCEPT !.scanning_result = Some(fetched.row)])

\* one turn of the no_sharing loop
ScanOperator(engine, operator, run) ==
    IF operator.aggregations = {} THEN [run EXCEPT !.aggregations = {}]
    ELSE ScanFetched(operator,
            [run EXCEPT !.events = Append(@, Fetched("table", operator.aggregations)),
                        !.aggregations = operator.aggregations],
            ExecuteSelect(operator.aggregations, engine.table, engine.implicit_cast, engine.duplicate_names))

\* the no_sharing branch: one query per scan operator
RECURSIVE ScanUnshared(_, _, _, _)
ScanUnshared(engine, scanning_operators, i, run) ==
    IF i > Len(scanning_operators) \/ run.raised # "" THEN run
    ELSE ScanUnshared(engine, scanning_operators, i + 1,
                      ScanOperator(engine, scanning_operators[i], run))

\* the sharing branch after the one query: one extraction per scan operator
RECURSIVE ScanShared(_, _, _)
ScanShared(scanning_operators, i, run) ==
    IF i > Len(scanning_operators) \/ run.raised # "" THEN run
    ELSE IF run.scanning_result = None THEN [run EXCEPT !.raised = "UnboundLocalError"]
    ELSE ScanShared(scanning_operators, i + 1,
            ExtractAndRegister(scanning_operators[i], run.scanning_result[1], run))

\* a sharing branch that keeps the result of the query and registers no state
SharedFetchedUnregistered(scanning_operators, queried, fetched) ==
    IF fetched.raised # "" THEN [queried EXCEPT !.raised = fetched.raised]
    ELSE [queried EXCEPT !.scanning_result = Some(fetched.row)]

\* the sharing branch after the one query was issued
SharedFetched(scanning_operators, queried, fetched) ==
    IF fetched.raised # "" THEN [queried EXCEPT !.raised = fetched.raised]
    ELSE ScanShared(scanning_operators, 1,
                    [queried EXCEPT !.scanning_result = Some(fetched.row)])

\* a sharing branch that queries the table once per scan operator
ScanSharingPerOperator(engine, scanning_operators, run, aggregations) ==
    ScanUnshared(engine, scanning_operators, 1, run)

\* the sharing branch: one query for the union of the aggregations
ScanSharing(engine, scanning_operators, run, aggregations) ==
    IF aggregations = {} THEN run
    ELSE SharedFetched(scanning_operators,
            [run EXCEPT !.events = Append(@, Fetched("table", aggregations)),
                        !.aggregations = aggregations],
            ExecuteSelect(aggregations, engine.table, engine.implicit_cast, engine.duplicate_names))

\* the union of the aggregations of a list of operators
GroupAggregations(operators) ==
    UNION {operators[i].aggregations : i \in DOMAIN operators}

\* the rows of `SELECT <col>, COUNT(*) as count FROM <table> [WHERE <filter>]
\* GROUP BY <col>`, ordered by value with the NULL group first
RECURSIVE FrequencyRows(_, _, _)
FrequencyRows(values, column, of_col) ==
    IF values = {} THEN <<>>
    ELSE LET v == CHOOSE x \in values :
                    \A y \in values : IsNull(x) \/ (~IsNull(y) /\ ~Gt(x, y))
         IN  <<(column :> v) @@
                ("count" :> Num(Cardinality({i \in DOMAIN of_col : of_col[i] = v})))>>
             \o FrequencyRows(values \ {v}, column, of_col)

\* the values of a column over all rows, whatever the filter
FilteredColumnUnfiltered(rows, column, filter) ==
    [i \in 1..Len(rows) |-> rows[i][column]]

\* the values of a column in the rows that satisfy a filter
FilteredColumn(rows, column, filter) ==
    [i \in 1..Len(SelectSeq(rows, LAMBDA r : WhereHolds(filter, r))) |->
        SelectSeq(rows, LAMBDA r : WhereHolds(filter, r))[i][column]]

\* SQLEngine.execute_and_store of the GROUP BY query: [raised, table]
FrequenciesTable(tbl, column, filter) ==
    IF ~(({column} \cup WhereColumns(filter)) \subseteq DOMAIN tbl.schema)
    THEN [raised |-> "BinderException", table |-> <<>>]
    ELSE [raised |-> "",
          table |-> [schema |-> (column :> tbl.schema[column]) @@ ("count" :> "BIGINT"),
                     rows |-> FrequencyRows(Range(FilteredColumn(tbl.rows, column, filter)),
                                            column,
                                            FilteredColumn(tbl.rows, column, filter))]]

\* the tables store_table created in the repository so far
RepositoryTables(run) ==
    {run.events[i].table : i \in {j \in DOMAIN run.events : run.events[j].ev = "store_table"}}

\* repo.register_state of a FrequenciesAndNumRows state: a SQL repository
\* first creates the table of a state that carries its frequencies
\* (has_df, set when the repository is not on the connection of the
\* engine), which the database refuses when the table exists
RegisterTabular(repo, state, run) ==
    IF repo.kind = "sql" /\ ~repo.local /\ state.frequencies_table \in RepositoryTables(run)
    THEN [run EXCEPT !.raised = "CatalogException"]
    ELSE IF repo.kind = "sql" /\ ~repo.local
    THEN [run EXCEPT !.events = @ \o <<TableStored(state.frequencies_table),
                                       Registered(state)>>]
    ELSE [run EXCEPT !.events = Append(@, Registered(state))]

\* one turn of the inner loop of the grouping pass, after extract_metric
RecordGroupingMetric(repo, operator, renamed, run, metric) ==
    IF metric.raised # "" THEN [state |-> renamed, run |-> [run EXCEPT !.raised = metric.raised]]
    ELSE [state |-> renamed,
          run |-> RegisterTabular(repo, renamed,
                    [run EXCEPT !.metrics = DictPut(@, operator.property, metric.metric)])]

\* the inner loop of the grouping pass: one metric and one register_state
\* call per operator of the bucket, all on the one state object
RECURSIVE ExtractGroupingMetrics(_, _, _, _, _, _)
ExtractGroupingMetrics(repo, grouping_operators, i, grouping_result, num_rows, acc) ==
    IF i > Len(grouping_operators) \/ acc.run.raised # "" THEN acc.run
    ELSE ExtractGroupingMetrics(repo, grouping_operators, i + 1, grouping_result, num_rows,
            RecordGroupingMetric(repo, grouping_operators[i],
                [acc.state EXCEPT !.id = property_identifier(grouping_operators[i].property)],
                acc.run,
                extract_metric(grouping_operators[i], grouping_result, num_rows)))

\* one grouping pass after the aggregate query over the frequencies table
GroupingFetched(repo, grouping_operators, num_rows, state, queried, fetched) ==
    IF fetched.raised # "" THEN [queried EXCEPT !.raised = fetched.raised]
    ELSE ExtractGroupingMetrics(repo, grouping_operators, 1, fetched.row, num_rows,
                                [state |-> state, run |-> queried])

\* one grouping pass after the frequencies table was materialised
GroupingStored(engine, repo, grouping, grouping_operators, num_rows, stored, frequencies) ==
    IF frequencies.raised # "" THEN [stored EXCEPT !.raised = frequencies.raised]
    ELSE GroupingFetched(repo, grouping_operators, num_rows,
            FrequenciesAndNumRows(identifier(grouping),
                get_frequency_table_name(repo, identifier(grouping)),
                <<GroupingColumn(grouping)>>, num_rows),
            [stored EXCEPT
                !.events = (IF repo.local THEN @
                            ELSE Append(@, Fetched(
                                    get_frequency_table_name(repo, identifier(grouping)), {})))
                           \o <<Fetched(get_frequency_table_name(repo, identifier(grouping)),
                                        GroupAggregations(grouping_operators))>>,
                !.aggregations = GroupAggregations(grouping_operators)],
            ExecuteSelect(GroupAggregations(grouping_operators), frequencies.table,
                          engine.implicit_cast, engine.duplicate_names))

\* one grouping pass after extract_num_rows
GroupingCounted(engine, repo, grouping, grouping_operators, run, num_rows) ==
    IF num_rows.raised # "" THEN [run EXCEPT !.raised = num_rows.raised]
    ELSE GroupingStored(engine, repo, grouping, grouping_operators, num_rows.value,
            [run EXCEPT !.events = Append(@,
                Stored(get_frequency_table_name(repo, identifier(grouping)), grouping,
                       ~repo.local))],
            FrequenciesTable(engine.table, GroupingColumn(grouping),
                             IF grouping.filter = None THEN "" ELSE grouping.filter[1]))

\* the last loop of compute_metrics: one pass per grouping bucket, in the
\* order the buckets were created; scanning_result is unbound when no query
\* of the scan phase assigned it
RECURSIVE GroupingPass(_, _, _, _, _, _)
GroupingPass(engine, repo, groupings, grouping_operator_groups, i, run) ==
    IF i > Len(groupings) \/ run.raised # "" THEN run
    ELSE IF run.scanning_result = None THEN [run EXCEPT !.raised = "UnboundLocalError"]
    ELSE GroupingPass(engine, repo, groupings, grouping_operator_groups, i + 1,
            GroupingCounted(engine, repo, groupings[i],
                            grouping_operator_groups[groupings[i]], run,
                            ResultInt(run.scanning_result[1], groupings[i].num_rows_col)))

\* the num_rows aggregations of the grouping buckets
NumRowsAggregations(groupings) ==
    {get_num_rows_aggregation(groupings[i]) : i \in DOMAIN groupings}

\* the schema property of compute_metrics: its state and its metric
RegisterSchema(engine, plan, run) ==
    IF plan.schema_property = None THEN run
    ELSE [run EXCEPT
            !.events = Append(@, Registered(
                SchemaState(property_identifier(Schema), engine.table.schema))),
            !.metrics = DictPut(@, Schema,
                metric_from_value(engine.table.schema, "Schema", "", "DATASET"))]

\* the scan phase of compute_metrics
ScanPhase(engine, plan, run) ==
    IF engine.no_sharing THEN ScanUnshared(engine, plan.scanning_operators, 1, run)
    ELSE ScanSharing(engine, plan.scanning_operators, run,
                     run.aggregations \cup GroupAggregations(plan.scanning_operators))

\* what compute_metrics hands back: the map when nothing was raised
ComputeResult(run) ==
    [raised |-> run.raised,
     metrics |-> IF run.raised = "" THEN run.metrics ELSE <<>>,
     events |-> run.events]

\* compute_metrics after its first loop
ComputePlanned(engine, repo, plan) ==
    IF plan.raised # ""
    THEN [raised |-> plan.raised, metrics |-> <<>>, events |-> plan.events]
    ELSE ComputeResult(
            GroupingPass(engine, repo, plan.groupings, plan.grouping_operator_groups, 1,
                ScanPhase(engine, plan,
                    RegisterSchema(engine, plan,
                        [raised |-> "", metrics |-> plan.metrics, events |-> plan.events,
                         scanning_result |-> None,
                         aggregations |-> NumRowsAggregations(plan.groupings)]))))

\* SQLEngine.compute_metrics
compute_metrics(engine, properties, repo) ==
    ComputePlanned(engine, repo,
        PlanOperators(properties, 1,
            [raised |-> "", schema_property |-> None, scanning_operators |-> <<>>,
             groupings |-> <<>>, grouping_operator_groups |-> <<>>,
             metrics |-> <<>>, events |-> <<>>]))

(***************************************************************************)
(* core/preconditions.py, SQLEngine.evaluate_preconditions,                *)
(* utils/analysis_runner.py                                                *)
(***************************************************************************)
STRING_TYPES == {"VARCHAR", "NVARCHAR", "CLOB", "TEXT"}

is_string(column) == [cond |-> "IsString", column |-> column]

\* Property.preconditions: only MaxLength and MinLength declare one
preconditions(p) ==
    IF p.name \in {"MaxLength", "MinLength"} THEN <<is_string(p.instance)>> ELSE <<>>

\* SQLEngine.evaluate_preconditions: the message of the exception the first
\* failing condition raises, None when every condition holds. Reading the
\* type of a column the schema does not have raises KeyError.
RECURSIVE evaluate_preconditions(_, _, _)
evaluate_preconditions(engine, conditions, i) ==
    IF i > Len(conditions) THEN None
    ELSE LET cond == conditions[i]
             schema == engine.table.schema
         IN  IF cond.cond = "IsString" /\ cond.column \notin DOMAIN schema
             THEN Some("'" \o cond.column \o "'")
             ELSE IF cond.cond = "IsString" /\ schema[cond.column] \notin STRING_TYPES
             THEN Some("Expected type of column " \o cond.column \o " to be one of "
                       \o engine.string_types \o ", but found " \o schema[cond.column]
                       \o " instead!")
             ELSE evaluate_preconditions(engine, conditions, i + 1)

find_first_failing(engine, conditions) == evaluate_preconditions(engine, conditions, 1)

\* compute_precondition_failure_metrics
compute_precondition_failure_metrics(failed_analyzers, engine) ==
    [a \in failed_analyzers |->
        metric_from_failure(find_first_failing(engine, preconditions(a))[1], a)]

\* AnalyzerContext.__add__: {**self.metric_map, **other.metric_map}
AnalyzerContextAddKeepingSelf(self, other) ==
    [k \in DOMAIN self \cup DOMAIN other |-> IF k \in DOMAIN self THEN self[k] ELSE other[k]]

AnalyzerContextAdd(self, other) ==
    [k \in DOMAIN self \cup DOMAIN other |-> IF k \in DOMAIN other THEN other[k] ELSE self[k]]

\* the analyzers of a list with a failing precondition
FailedOf(engine, analyzers) ==
    {an \in Range(analyzers) : find_first_failing(engine, preconditions(an)) # None}

\* the end of do_analysis_run, after engine.compute_metrics
AnalysisResult(metrics, precondition_failures) ==
    IF metrics.raised # ""
    THEN [done |-> TRUE, raised |-> metrics.raised, metric_map |-> <<>>,
          engine_metrics |-> <<>>, events |-> metrics.events]
    ELSE [done |-> TRUE, raised |-> "",
          metric_map |-> AnalyzerContextAdd(metrics.metrics, precondition_failures),
          engine_metrics |-> metrics.metrics, events |-> metrics.events]

\* do_analysis_run: [done, raised, metric_map, engine_metrics, events], where
\* engine_metrics is the map engine.compute_metrics returned
do_analysis_run(engine, repo, analyzers) ==
    IF analyzers = <<>>
    THEN [done |-> TRUE, raised |-> "", metric_map |-> <<>>, engine_metrics |-> <<>>,
          events |-> <<>>]
    ELSE AnalysisResult(compute_metrics(engine, analyzers, repo),
            compute_precondition_failure_metrics(FailedOf(engine, analyzers), engine))

(***************************************************************************)
(* The sketches of the datasketches package, over few values: a KLL sketch *)
(* keeps the values it was updated with and an HLL sketch the set of them, *)
(* so that the quantile and the estimate are exact. serialize().hex() and  *)
(* deserialize(bytes.fromhex(...)) wrap and unwrap what the sketch keeps.  *)
(***************************************************************************)
kll_update(data_col) == [kind |-> "kll", values |-> data_col]
kll_merge(main_kll, new_kll) == [main_kll EXCEPT !.values = @ \o new_kll.values]

\* kll.get_quantiles([rank])[0]: the least value with at least the given
\* fraction of the values not above it, NaN for a sketch without values
kll_get_quantile(kll, rank) ==
    IF kll.values = <<>> THEN NaN
    ELSE LET not_above(v) ==
                Cardinality({i \in DOMAIN kll.values : ~Gt(kll.values[i], v)})
             reaching == {v \in Range(kll.values) :
                            not_above(v) * rank.d >= Len(kll.values) * rank.n}
         IN  CHOOSE v \in reaching : \A w \in reaching : ~Lt(w, v)

hll_update(data_col) == [kind |-> "hll", values |-> Range(data_col)]
hll_union(main_hll, new_hll) == [main_hll EXCEPT !.values = @ \cup new_hll.values]
hll_get_estimate(hll) == Num(Cardinality(hll.values))

SerializeHex(sketch) == [hex |-> sketch]
DeserializeHex(serialized) == serialized.hex

\* the sketches of the states after the first one merged into the first
RECURSIVE MergeSketches(_, _, _, _, _)
MergeSketches(Merge(_, _), main, states, field, i) ==
    IF i > Len(states) THEN [raised |-> "", value |-> main]
    ELSE IF field \notin DOMAIN states[i] THEN [raised |-> "AttributeError", value |-> main]
    ELSE MergeSketches(Merge, Merge(main, DeserializeHex(states[i][field])), states,
                       field, i + 1)

(***************************************************************************)
(* engines/state_engine.py: StateEngine.__merge_states                     *)
(***************************************************************************)
Returned(state) == [raised |-> "", state |-> state]
Raised(exception) == [raised |-> exception, state |-> <<>>]

\* `for state in states: acc = op(acc, state.field)`; reading a field a state
\* does not have raises AttributeError
RECURSIVE FoldField(_, _, _, _, _)
FoldField(Op(_, _), acc, states, field, i) ==
    IF i > Len(states) THEN [raised |-> "", value |-> acc]
    ELSE IF field \notin DOMAIN states[i] THEN [raised |-> "AttributeError", value |-> acc]
    ELSE FoldField(Op, Op(acc, states[i][field]), states, field, i + 1)

\* the loops of the MaxState and MinState branches
MergeMax(states) == FoldField(PyMax, states[1].max_value, states, "max_value", 1)
MergeMin(states) == FoldField(PyMin, states[1].min_value, states, "min_value", 1)

\* the loops of the branches that add up a field, starting from 0
MergeSum(states, field) == FoldField(Add, Num(0), states, field, 1)

\* StateEngine.__merge_states
merge_states_list(states) ==
    IF states = <<>> THEN Raised("IndexError")
    ELSE
    LET first_state == states[1]
        v == first_state.variant
    IN  CASE v = "SchemaState" -> Returned(first_state)
          [] v = "MaxState" ->
                LET m == MergeMax(states)
                IN  IF m.raised # "" THEN Raised(m.raised)
                    ELSE Returned(MaxState(first_state.id, m.value))
          [] v = "MeanState" ->
                LET total == MergeSum(states, "total")
                    count == MergeSum(states, "count")
                IN  IF total.raised # "" THEN Raised(total.raised)
                    ELSE IF count.raised # "" THEN Raised(count.raised)
                    ELSE Returned(MeanState(first_state.id, total.value, count.value))
          [] v = "MinState" ->
                LET m == MergeMin(states)
                IN  IF m.raised # "" THEN Raised(m.raised)
                    ELSE Returned(MinState(first_state.id, m.value))
          [] v = "NumMatches" ->
                LET n == MergeSum(states, "num_matches")
                IN  IF n.raised # "" THEN Raised(n.raised)
                    ELSE Returned(NumMatches(first_state.id, n.value))
          [] v = "NumMatchesAndCount" ->
                LET n == MergeSum(states, "num_matches")
                    c == MergeSum(states, "count")
                IN  IF n.raised # "" THEN Raised(n.raised)
                    ELSE IF c.raised # "" THEN Raised(c.raised)
                    ELSE Returned(NumMatchesAndCount(first_state.id, n.value, c.value))
          [] v = "QuantileState" ->
                LET main_kll == MergeSketches(kll_merge,
                                    DeserializeHex(first_state.serializedKll), states,
                                    "serializedKll", 2)
                IN  IF main_kll.raised # "" THEN Raised(main_kll.raised)
                    ELSE Returned(QuantileState(first_state.id, SerializeHex(main_kll.value),
                                                first_state.quantile, first_state.sketch_type))
          [] v = "ApproxDistinctState" ->
                LET num_rows == MergeSum(states, "num_rows")
                    main_hll == MergeSketches(hll_union,
                                    DeserializeHex(first_state.serializedHll), states,
                                    "serializedHll", 2)
                IN  IF num_rows.raised # "" THEN Raised(num_rows.raised)
                    ELSE IF main_hll.raised # "" THEN Raised(main_hll.raised)
                    ELSE Returned(ApproxDistinctState(first_state.id,
                                    SerializeHex(main_hll.value),
                                    hll_get_estimate(main_hll.value), num_rows.value))
          [] v = "SumState" ->
                LET t == MergeSum(states, "sum_value")
                IN  IF t.raised # "" THEN Raised(t.raised)
                    ELSE Returned(SumState(first_state.id, t.value))
          [] v = "FrequenciesAndNumRows" -> Raised("NotImplementedError")
          [] OTHER -> Returned(<<>>)

(***************************************************************************)
(* The checks and metric maps the check evaluator is run on               *)
(***************************************************************************)
CheckProps == {Property("Completeness", "att1", None), Property("Maximum", "att1", None)}

CheckConstraints ==
    {Constraint("CompletenessConstraint", Property("Completeness", "att1", None), "is_one"),
     Constraint("MaximumConstraint", Property("Maximum", "att1", None), "is_positive")}

CheckUniverse ==
    {Check(l, "mycheck", ks) : l \in CheckLevels, ks \in SeqsUpTo(CheckConstraints, MaxConstraints)}

MetricOutcomes == {Success(Num(0)), Success(Num(1)), Failure("failed")}

MetricMaps ==
    UNION {{[p \in S |-> Metric(p.entity, p.name, p.instance, f[p])] : f \in [S -> MetricOutcomes]}
           : S \in SUBSET CheckProps}

(***************************************************************************)
(* The properties Property.__eq__ is run on                                *)
(***************************************************************************)
EqProps ==
    {Property(n, c, w) : n \in {"Minimum", "Maximum", "Mean"}, c \in {"att1", "att2"},
                         w \in {None, Some("att1 > 0")}}
    \cup {Size(w) : w \in {None, Some("att1 > 0")}}

(***************************************************************************)
(* Specification SpecCheck: a verification suite is filled with checks and *)
(* evaluated on a metric map                                               *)
(***************************************************************************)
\* DuckDBEngine.__init__; string_types is the text ', '.join(STRING_TYPES)
\* in the iteration order the set has in one process,
\* duplicate_names is what the database does with result columns of one name
DuckDBEngine(tbl, no_sharing, cast) ==
    [table |-> tbl, no_sharing |-> no_sharing, implicit_cast |-> cast,
     string_types |-> "VARCHAR, NVARCHAR, CLOB, TEXT", duplicate_names |-> "renamed"]

\* InMemoryMetadataRepository.__init__
InMemoryMetadataRepository == [kind |-> "memory", run_id |-> "run", local |-> FALSE]

PropIdle == prop_a = Schema /\ prop_b = Schema /\ eq_result = NotYet
CheckIdle == checks = <<>> /\ metric_map = <<>> /\ verification_result = NotYet

MergeIdle == loaded_states = <<>> /\ merged = NotYet

EmptyTable == [schema |-> [att1 |-> "BIGINT"], rows |-> <<>>]

RunIdle ==
    /\ engine_table = EmptyTable
    /\ run_analyzers = <<>>
    /\ engine_implicit_cast = FALSE
    /\ analysis = [no_sharing \in BOOLEAN |-> NotYet]

PartitionIdle ==
    /\ partitions = <<>>
    /\ verified = 0
    /\ dq_states = <<>>
    /\ merged_states = NotYet
    /\ derived = NotYet

\* no compute_metrics call is under way
ComputeIdle ==
    /\ engine_duplicate_names = "renamed"
    /\ compute_repo = InMemoryMetadataRepository
    /\ computed = [no_sharing \in BOOLEAN |-> NotYet]

\* the interpreter processes that run the analysis independently
Processes == {1, 2}

ProcessIdle ==
    /\ set_order = [p \in Processes |-> <<"VARCHAR", "NVARCHAR", "CLOB", "TEXT">>]
    /\ process_run = [p \in Processes |-> NotYet]

\* the PandasEngine instances of the model
FrameEngines == {1, 2}

FrameIdle ==
    /\ frames = <<>>
    /\ handled_connections = <<>>
    /\ connections = <<>>
    /\ frame_engines = [e \in FrameEngines |-> NotYet]
    /\ frame_runs = [e \in FrameEngines |-> NotYet]

RepoIdle ==
    /\ repo_run_id = <<>>
    /\ uuids_minted = 0
    /\ dq_validation_runs = <<>>
    /\ repo_rows = <<>>

BuildIdle == built = <<>> /\ built_results = NotYet

LaterIdle == BuildIdle

RestIdle == ComputeIdle /\ ProcessIdle /\ FrameIdle /\ RepoIdle /\ LaterIdle

InitCheck ==
    /\ RestIdle
    /\ checks = <<>>
    /\ metric_map \in MetricMaps
    /\ verification_result = NotYet
    /\ PropIdle
    /\ MergeIdle
    /\ RunIdle
    /\ PartitionIdle

\* VerificationSuite.add_check
add_check ==
    \E check \in CheckUniverse :
        /\ ~verification_result.done
        /\ Len(checks) < MaxChecks
        /\ checks' = Append(checks, check)
        /\ UNCHANGED <<metric_map, verification_result, eqVars, mergeVars, runVars, partitionVars, restVars>>

\* VerificationSuite.add_checks
add_checks ==
    \E cs \in SeqsUpTo(CheckUniverse, MaxChecks) :
        /\ ~verification_result.done
        /\ Len(cs) >= 1
        /\ Len(checks) + Len(cs) <= MaxChecks
        /\ checks' = checks \o cs
        /\ UNCHANGED <<metric_map, verification_result, eqVars, mergeVars, runVars, partitionVars, restVars>>

\* VerificationSuite.evaluate
evaluate ==
    /\ ~verification_result.done
    /\ verification_result' = SuiteEvaluate(checks, metric_map)
    /\ UNCHANGED <<checks, metric_map, eqVars, mergeVars, runVars, partitionVars, restVars>>

NextCheck == add_check \/ add_checks \/ evaluate

SpecCheck == InitCheck /\ [][NextCheck]_vars

\* every constraint of check c evaluates to SUCCESS on the metric map m
AllConstraintsPass(c, m) ==
    \A i \in 1..Len(c.constraints) : ConstraintEvaluate(c.constraints[i], m).status = "SUCCESS"

\* C1: the status of every evaluated check is SUCCESS exactly when all of its
\* constraints evaluate to SUCCESS on the metric map; otherwise it is ERROR
\* for a check of level EXCEPTION and WARNING for a check of level WARNING.
C1_CheckStatus ==
    verification_result.done =>
        \A c \in DOMAIN verification_result.check_results :
            LET r == verification_result.check_results[c]
            IN  /\ (r.status = SUCCESS) <=> AllConstraintsPass(c, metric_map)
                /\ ~AllConstraintsPass(c, metric_map) =>
                       /\ c.level = "EXCEPTION" => r.status = ERROR
                       /\ c.level = "WARNING" => r.status = WARNING

\* a WARNING check with a failing constraint and an EXCEPTION check whose two
\* constraints pass were evaluated in one run
C1_Witness ==
    /\ verification_result.done
    /\ \E c \in DOMAIN verification_result.check_results :
           /\ c.level = "WARNING"
           /\ Len(c.constraints) = 2
           /\ ~AllConstraintsPass(c, metric_map)
           /\ verification_result.check_results[c].status = WARNING
    /\ \E c \in DOMAIN verification_result.check_results :
           /\ c.level = "EXCEPTION"
           /\ Len(c.constraints) = 2
           /\ AllConstraintsPass(c, metric_map)

\* the worst status among the added checks, SUCCESS when there is none
WorstStatus(cs, m) ==
    IF \E i \in 1..Len(cs) : CheckEvaluate(cs[i], m).status = ERROR THEN ERROR
    ELSE IF \E i \in 1..Len(cs) : CheckEvaluate(cs[i], m).status = WARNING THEN WARNING
    ELSE SUCCESS

\* the orders in which the checks cs can be added
Orders(cs) ==
    {[i \in 1..Len(cs) |-> cs[f[i]]] : f \in Permutations(1..Len(cs))}

InitEq ==
    /\ RestIdle
    /\ prop_a \in EqProps
    /\ prop_b \in EqProps
    /\ eq_result = NotYet
    /\ CheckIdle
    /\ MergeIdle
    /\ RunIdle
    /\ PartitionIdle

\* Property.__eq__
property_eq ==
    /\ ~eq_result.done
    /\ eq_result' = [done |-> TRUE, value |-> PropertyEq(prop_a, prop_b)]
    /\ UNCHANGED <<checkVars, prop_a, prop_b, mergeVars, runVars, partitionVars, restVars>>

NextEq == property_eq

SpecEq == InitEq /\ [][NextEq]_vars

\* C10: two properties compare equal exactly when their name, instance,
\* entity and where filter all match.
C10_EqualIffFieldsMatch ==
    eq_result.done =>
        (eq_result.value <=>
            /\ prop_a.name = prop_b.name
            /\ prop_a.instance = prop_b.instance
            /\ prop_a.entity = prop_b.entity
            /\ prop_a.where = prop_b.where)

(***************************************************************************)
(* Specification SpecMerge: the states of one property, as the runs        *)
(* registered them, are collected and merged                               *)
(***************************************************************************)
\* What extract_state puts in a float field: float() of an aggregate, which
\* is NaN when the aggregate is NULL (no row contributed). An int field is
\* int() of an aggregate, which is never NaN.
FloatFields == {NaN, Num(1), Num(2)}
IntFields == {Num(0), Num(1), Num(2)}

\* the serialized states that dq_states can hold, by variant
StoredStates(variant) ==
    CASE variant = "MinState" ->
            {MinState(property_identifier(Property("Minimum", "att1", None)), v) :
                v \in FloatFields}
      [] variant = "MaxState" ->
            {MaxState(property_identifier(Property("Maximum", "att1", None)), v) :
                v \in FloatFields}
      [] variant = "SumState" ->
            {SumState(property_identifier(Property("Sum", "att1", None)), v) :
                v \in FloatFields}
      [] variant = "MeanState" ->
            {MeanState(property_identifier(Property("Mean", "att1", None)), t, c) :
                t \in FloatFields, c \in IntFields \ {Num(0)}}
      [] variant = "NumMatches" ->
            {NumMatches(property_identifier(Size(None)), n) : n \in IntFields}
      [] variant = "NumMatchesAndCount" ->
            {NumMatchesAndCount(property_identifier(Property("Completeness", "att1", None)),
                                q[1], q[2]) :
                q \in {r \in IntFields \X IntFields : ~Gt(r[1], r[2])}}

MergedVariants ==
    {"MinState", "MaxState", "SumState", "MeanState", "NumMatches", "NumMatchesAndCount"}

InitMerge ==
    /\ RestIdle
    /\ loaded_states = <<>>
    /\ merged = NotYet
    /\ CheckIdle
    /\ PropIdle
    /\ RunIdle
    /\ PartitionIdle

\* StateEngine.merge_states, one turn of the loop over the stored states:
\* the state is rebuilt from its row and appended to its property's list
load_state ==
    \E variant \in MergedVariants :
        \E state \in StoredStates(variant) :
            /\ ~merged.done
            /\ Len(loaded_states) < MaxStates
            /\ loaded_states # <<>> => loaded_states[1].variant = variant
            /\ loaded_states' = Append(loaded_states, state)
            /\ UNCHANGED <<checkVars, eqVars, merged, runVars, partitionVars, restVars>>

\* StateEngine.merge_states, the call of __merge_states for the property
merge_states ==
    /\ ~merged.done
    /\ merged' = [done |-> TRUE, value |-> merge_states_list(loaded_states)]
    /\ UNCHANGED <<checkVars, eqVars, loaded_states, runVars, partitionVars, restVars>>

NextMerge == load_state \/ merge_states

SpecMerge == InitMerge /\ [][NextMerge]_vars

\* the values of one field over a list of states
FieldValues(states, field) == {states[i][field] : i \in 1..Len(states)}

\* the least and the greatest of a set of floats; NaN, which says that no
\* row contributed, counts only when there is nothing else
LeastOf(S) ==
    IF \A v \in S : IsNaN(v) THEN NaN
    ELSE CHOOSE v \in S : ~IsNaN(v) /\ \A w \in S : ~Lt(w, v)
GreatestOf(S) ==
    IF \A v \in S : IsNaN(v) THEN NaN
    ELSE CHOOSE v \in S : ~IsNaN(v) /\ \A w \in S : ~Gt(w, v)

\* the sum of one field over a list of states
RECURSIVE SumOfField(_, _)
SumOfField(states, field) ==
    IF states = <<>> THEN Num(0)
    ELSE Add(states[1][field], SumOfField(Tail(states), field))

\* the state the merge rules give for a non-empty list of one variant
MergeRule(states) ==
    LET id == states[1].id
        v == states[1].variant
    IN  CASE v = "MinState" -> MinState(id, LeastOf(FieldValues(states, "min_value")))
          [] v = "MaxState" -> MaxState(id, GreatestOf(FieldValues(states, "max_value")))
          [] v = "SumState" -> SumState(id, SumOfField(states, "sum_value"))
          [] v = "NumMatches" -> NumMatches(id, SumOfField(states, "num_matches"))
          [] v = "NumMatchesAndCount" ->
                NumMatchesAndCount(id, SumOfField(states, "num_matches"),
                                   SumOfField(states, "count"))
          [] v = "MeanState" ->
                MeanState(id, SumOfField(states, "total"), SumOfField(states, "count"))

\* C8: merging a non-empty list of states of one variant returns the state of
\* that variant and id that holds the minimum (MinState), the maximum
\* (MaxState), the sum (SumState, NumMatches) or the componentwise sums
\* (NumMatchesAndCount, MeanState) of the inputs; a single state merges to
\* itself.
C8_MergeFollowsRules ==
    (merged.done /\ loaded_states # <<>>) =>
        /\ merged.value.raised = ""
        /\ merged.value.state = MergeRule(loaded_states)
        /\ Len(loaded_states) = 1 => merged.value.state = loaded_states[1]

\* the orders of a list
Perms(states) ==
    {[i \in 1..Len(states) |-> states[f[i]]] : f \in Permutations(1..Len(states))}

\* C9: merging is associative and commutative: the merge of a list equals
\* the merge of the merges of any non-empty prefix and the remaining suffix,
\* and equals the merge of every permutation of the list.
C9_MergeAssociativeCommutative ==
    (merged.done /\ loaded_states # <<>>) =>
        /\ \A k \in 1..(Len(loaded_states) - 1) :
               LET prefix == merge_states_list(SubSeq(loaded_states, 1, k))
                   suffix == merge_states_list(SubSeq(loaded_states, k + 1, Len(loaded_states)))
               IN  /\ prefix.raised = ""
                   /\ suffix.raised = ""
                   /\ merge_states_list(<<prefix.state, suffix.state>>) = merged.value
        /\ \A o \in Perms(loaded_states) : merge_states_list(o) = merged.value

(***************************************************************************)
(* Specification SpecRun: one dataset table, one list of requested         *)
(* properties, and an analysis run of it by an engine with aggregation     *)
(* sharing and by an engine with no_sharing set                            *)
(***************************************************************************)
CellValues == {NULL, Num(1)}

Tables ==
    {[schema |-> [att1 |-> "BIGINT"], rows |-> rows] :
        rows \in SeqsUpTo({[att1 |-> v] : v \in CellValues}, MaxRows)}

RunProps ==
    {Size(None), Property("Sum", "att1", None), Property("MaxLength", "att1", None),
     Property("Uniqueness", "att1", None), Property("Distinctness", "att1", None)}

InitRun ==
    /\ RestIdle
    /\ engine_table \in Tables
    /\ run_analyzers \in SeqsUpTo(RunProps, MaxAnalyzers)
    /\ engine_implicit_cast \in BOOLEAN
    /\ analysis = [no_sharing \in BOOLEAN |-> NotYet]
    /\ CheckIdle
    /\ PropIdle
    /\ MergeIdle
    /\ PartitionIdle

\* do_analysis_run(engine, repo, analyzers) on an engine over the table
analysis_run ==
    \E no_sharing \in BOOLEAN :
        /\ ~analysis[no_sharing].done
        /\ analysis' = [analysis EXCEPT ![no_sharing] =
                do_analysis_run(DuckDBEngine(engine_table, no_sharing, engine_implicit_cast),
                                InMemoryMetadataRepository, run_analyzers)]
        /\ UNCHANGED <<checkVars, eqVars, mergeVars, engine_table, run_analyzers,
                       engine_implicit_cast, partitionVars, restVars>>

NextRun == analysis_run

SpecRun == InitRun /\ [][NextRun]_vars

\* the engine of the run with the given no_sharing
RunEngine(no_sharing) == DuckDBEngine(engine_table, no_sharing, engine_implicit_cast)

\* how many operators a run built for a property, and how many states it
\* handed to register_state under the property's id
OperatorsBuilt(run, p) ==
    Len(SelectSeq(run.events, LAMBDA e : e.ev = "create_operator" /\ e.property = p))

StatesRegistered(run, p) ==
    Len(SelectSeq(run.events,
                  LAMBDA e : e.ev = "register_state" /\ e.state.id = property_identifier(p)))

\* C3: whenever one of the two engines returns a map, the other returns the
\* same map: no_sharing does not change the Property -> Metric map.
C3_NoSharingSameMap ==
    (/\ analysis[TRUE].done
     /\ analysis[FALSE].done
     /\ (analysis[TRUE].raised = "" \/ analysis[FALSE].raised = ""))
        => /\ analysis[TRUE].raised = ""
           /\ analysis[FALSE].raised = ""
           /\ analysis[TRUE].engine_metrics = analysis[FALSE].engine_metrics

\* C4: in a finished run at most one operator was built and at most one state
\* was registered for each requested property, however often it is listed,
\* and a run that returned holds a metric for it.
C4_RunOnlyOnce ==
    \A no_sharing \in BOOLEAN :
        analysis[no_sharing].done =>
            \A p \in Range(run_analyzers) :
                /\ OperatorsBuilt(analysis[no_sharing], p) <= 1
                /\ StatesRegistered(analysis[no_sharing], p) <= 1
                /\ analysis[no_sharing].raised = ""
                        => p \in DOMAIN analysis[no_sharing].metric_map

\* the requested properties with a failing precondition
FailedAnalyzers(no_sharing) ==
    {p \in Range(run_analyzers) :
        find_first_failing(RunEngine(no_sharing), preconditions(p)) # None}

\* C5: in a run that returned, the metric of every requested property with a
\* failing precondition is the Failure carrying the message of its first
\* failing precondition.
C5_PreconditionFailureMetric ==
    \A no_sharing \in BOOLEAN :
        (analysis[no_sharing].done /\ analysis[no_sharing].raised = "") =>
            \A p \in FailedAnalyzers(no_sharing) :
                /\ p \in DOMAIN analysis[no_sharing].metric_map
                /\ analysis[no_sharing].metric_map[p] =
                        metric_from_failure(
                            find_first_failing(RunEngine(no_sharing), preconditions(p))[1], p)

\* a run that returned, in which the engine computed a value for a property
\* with a failing precondition and the returned metric is the failure
C5_Witness ==
    \E no_sharing \in BOOLEAN :
        /\ analysis[no_sharing].done
        /\ analysis[no_sharing].raised = ""
        /\ \E p \in FailedAnalyzers(no_sharing) :
                /\ p \in DOMAIN analysis[no_sharing].engine_metrics
                /\ analysis[no_sharing].engine_metrics[p].value.isSuccess
                /\ ~analysis[no_sharing].metric_map[p].value.isSuccess

\* the aggregation texts of the queries of a run
FetchedAggregations(run) ==
    UNION {{a.sql : a \in run.events[i].aggregations} :
            i \in {j \in DOMAIN run.events : run.events[j].ev = "execute_and_fetch"}}

\* C6: for a property with a failing precondition a finished run built no
\* operator, issued none of its aggregations and registered no state, and the
\* run ended as the run of the remaining properties ends, with their metrics.
C6_FailedPreconditionNotPlanned ==
    \A no_sharing \in BOOLEAN :
        analysis[no_sharing].done =>
            LET failed == FailedAnalyzers(no_sharing)
                others == SelectSeq(run_analyzers, LAMBDA p : p \notin failed)
                without == do_analysis_run(RunEngine(no_sharing),
                                           InMemoryMetadataRepository, others)
            IN  /\ \A p \in failed :
                    /\ OperatorsBuilt(analysis[no_sharing], p) = 0
                    /\ StatesRegistered(analysis[no_sharing], p) = 0
                    /\ {a.sql : a \in create_operator(p).operator.aggregations}
                            \cap FetchedAggregations(analysis[no_sharing]) = {}
                /\ analysis[no_sharing].raised = without.raised
                /\ \A p \in Range(others) :
                        without.raised = "" =>
                            analysis[no_sharing].metric_map[p] = without.metric_map[p]

(***************************************************************************)
(* metadata/metadata_repository.py: SQLMetadataRepository, and             *)
(* engines/state_engine.py: StateEngine.merge_states, metrics_from_states  *)
(***************************************************************************)
\* SQLMetadataRepository after set_dataset minted run_id
SQLMetadataRepository(run_id) == [kind |-> "sql", run_id |-> run_id, local |-> FALSE]

\* the fields of a state besides its class: dataclasses.asdict(state)
asdict(state) == [f \in DOMAIN state \ {"variant"} |-> state[f]]

\* SQLMetadataRepository.register_state: the row inserted into dq_states
StateRow(repo, state) ==
    [run_id |-> repo.run_id, property_id |-> state.id, state_type |-> state.variant,
     state_serialized |-> asdict(state)]

\* the rows a run left in dq_states: one per register_state call, in order
RECURSIVE RegisteredRows(_, _, _)
RegisteredRows(repo, events, i) ==
    IF i > Len(events) THEN <<>>
    ELSE IF events[i].ev = "register_state"
    THEN <<StateRow(repo, events[i].state)>> \o RegisteredRows(repo, events, i + 1)
    ELSE RegisteredRows(repo, events, i + 1)

\* StateClass(**state_dict)
StateOfRow(row) == row.state_serialized @@ [variant |-> row.state_type]

\* the first loops of StateEngine.merge_states: the states stored under the
\* property's id by the given runs, in the order of run_ids and of the rows
RECURSIVE StatesOfRuns(_, _, _, _)
StatesOfRuns(rows, run_ids, property, i) ==
    IF i > Len(run_ids) THEN <<>>
    ELSE LET of_run == SelectSeq(rows, LAMBDA r :
                            r.run_id = run_ids[i]
                            /\ r.property_id = property_identifier(property))
         IN  [k \in 1..Len(of_run) |-> StateOfRow(of_run[k])]
             \o StatesOfRuns(rows, run_ids, property, i + 1)

\* the last loop of StateEngine.merge_states: [raised, states], states the
\* Property -> State map
RECURSIVE MergeEach(_, _, _, _, _)
MergeEach(rows, run_ids, required_properties, i, acc) ==
    IF i > Len(required_properties) \/ acc.raised # "" THEN acc
    ELSE LET property == required_properties[i]
             result == merge_states_list(StatesOfRuns(rows, run_ids, property, 1))
         IN  IF result.raised # ""
             THEN [raised |-> result.raised, states |-> <<>>]
             ELSE MergeEach(rows, run_ids, required_properties, i + 1,
                            [acc EXCEPT !.states = DictPut(@, property, result.state)])

StateEngineMergeStates(rows, run_ids, required_properties) ==
    MergeEach(rows, run_ids, required_properties, 1, [raised |-> "", states |-> <<>>])

\* min(approx_distinct_count / num_rows, 1.00): [raised, value]
approx_distinctness(approx_distinct_count, num_rows) ==
    LET ratio == Div(approx_distinct_count, num_rows)
    IN  IF ratio.raised # "" THEN ratio
        ELSE [raised |-> "", value |-> PyMin(ratio.value, Num(1))]

\* the Quantile branch of metrics_from_states
QuantileMetric(prop, state) ==
    metric_from_value(kll_get_quantile(DeserializeHex(state.serializedKll), prop.quantile),
                      prop.name, prop.instance, prop.entity)

\* StateEngine.metrics_from_states over the properties in the order of the
\* map: [raised, metrics]
RECURSIVE MetricsOfStates(_, _, _, _)
\* the ApproxDistinctness branch: it reads the fields approx_distinct_count
\* and num_rows of the state
ApproxDistinctMetric(prop, state, properties_and_states, properties, i, acc) ==
    IF "approx_distinct_count" \notin DOMAIN state \/ "num_rows" \notin DOMAIN state
    THEN [raised |-> "AttributeError", metrics |-> <<>>]
    ELSE LET r == approx_distinctness(state.approx_distinct_count, state.num_rows)
         IN  IF r.raised # "" THEN [raised |-> r.raised, metrics |-> <<>>]
             ELSE MetricsOfStates(properties_and_states, properties, i + 1,
                    [acc EXCEPT !.metrics = DictPut(@, prop,
                        metric_from_value(r.value, prop.name, prop.instance, prop.entity))])

MetricsOfStates(properties_and_states, properties, i, acc) ==
    IF i > Len(properties) \/ acc.raised # "" THEN acc
    ELSE LET prop == properties[i]
             state == properties_and_states[prop]
             made == create_operator(prop)
             metric == get_metric(made.operator, state)
         IN  IF prop.name = "Quantile"
             THEN MetricsOfStates(properties_and_states, properties, i + 1,
                    [acc EXCEPT !.metrics = DictPut(@, prop,
                        QuantileMetric(prop, state))])
             ELSE IF prop.name = "ApproxDistinctness"
             THEN ApproxDistinctMetric(prop, state, properties_and_states, properties, i, acc)
             ELSE IF prop.name = "Schema"
             THEN MetricsOfStates(properties_and_states, properties, i + 1,
                    [acc EXCEPT !.metrics = DictPut(@, prop,
                        metric_from_value(state.schema, prop.name, prop.instance, prop.entity))])
             ELSE IF made.raised # "" THEN [raised |-> made.raised, metrics |-> <<>>]
             ELSE IF metric.raised # "" THEN [raised |-> metric.raised, metrics |-> <<>>]
             ELSE MetricsOfStates(properties_and_states, properties, i + 1,
                    [acc EXCEPT !.metrics = DictPut(@, prop, metric.metric)])

metrics_from_states(properties_and_states, properties) ==
    MetricsOfStates(properties_and_states, properties, 1, [raised |-> "", metrics |-> <<>>])

(***************************************************************************)
(* Specification SpecPartition: a dataset split into partitions, each      *)
(* verified in a run of its own against one SQL repository, the dataset    *)
(* verified directly, and the metrics derived from the merged states       *)
(***************************************************************************)
AdditiveProps ==
    {Size(None), Property("Completeness", "att1", None), Property("Mean", "att1", None),
     Property("Sum", "att1", None)}

\* the tables with at least one row
PartitionTables == {t \in Tables : t.rows # <<>>}

RECURSIVE ConcatRows(_, _)
ConcatRows(tables, i) ==
    IF i > Len(tables) THEN <<>> ELSE tables[i].rows \o ConcatRows(tables, i + 1)

\* lists of requested properties that name no property twice
DistinctLists(S, n) ==
    {l \in SeqsUpTo(S, n) : \A i, j \in DOMAIN l : i # j => l[i] # l[j]}

RunId(i) == "run" \o ToString(i)

InitPartition ==
    /\ RestIdle
    /\ partitions \in SeqsUpTo(PartitionTables, MaxPartitions) \ {<<>>}
    /\ engine_table = [schema |-> [att1 |-> "BIGINT"], rows |-> ConcatRows(partitions, 1)]
    /\ run_analyzers \in DistinctLists(AdditiveProps, MaxAnalyzers) \ {<<>>}
    /\ engine_implicit_cast = FALSE
    /\ analysis = [no_sharing \in BOOLEAN |-> NotYet]
    /\ verified = 0
    /\ dq_states = <<>>
    /\ merged_states = NotYet
    /\ derived = NotYet
    /\ CheckIdle
    /\ PropIdle
    /\ MergeIdle

\* a verification run of the next partition: the repository mints a run id
\* and do_analysis_run registers the states of the run under it
partition_run ==
    /\ verified < Len(partitions)
    /\ LET repo == SQLMetadataRepository(RunId(verified + 1))
           run == do_analysis_run(
                    DuckDBEngine(partitions[verified + 1], FALSE, engine_implicit_cast),
                    repo, run_analyzers)
       IN  dq_states' = dq_states \o RegisteredRows(repo, run.events, 1)
    /\ verified' = verified + 1
    /\ UNCHANGED <<checkVars, eqVars, mergeVars, runVars, partitions, merged_states, derived, restVars>>

\* a verification run of the whole dataset
direct_run ==
    /\ ~analysis[FALSE].done
    /\ analysis' = [analysis EXCEPT ![FALSE] =
            do_analysis_run(DuckDBEngine(engine_table, FALSE, engine_implicit_cast),
                            InMemoryMetadataRepository, run_analyzers)]
    /\ UNCHANGED <<checkVars, eqVars, mergeVars, engine_table, run_analyzers,
                   engine_implicit_cast, partitionVars, restVars>>

\* StateEngine.merge_states(run_ids, required_properties) over the runs of
\* all partitions
merge_runs ==
    /\ verified = Len(partitions)
    /\ ~merged_states.done
    /\ merged_states' =
            [done |-> TRUE] @@
            StateEngineMergeStates(dq_states, [i \in 1..verified |-> RunId(i)], run_analyzers)
    /\ UNCHANGED <<checkVars, eqVars, mergeVars, runVars, partitions, verified, dq_states,
                   derived, restVars>>

\* StateEngine.metrics_from_states on the merged states
derive_metrics ==
    /\ merged_states.done
    /\ merged_states.raised = ""
    /\ ~derived.done
    /\ derived' = [done |-> TRUE] @@ metrics_from_states(merged_states.states, run_analyzers)
    /\ UNCHANGED <<checkVars, eqVars, mergeVars, runVars, partitions, verified, dq_states,
                   merged_states, restVars>>

NextPartition == partition_run \/ direct_run \/ merge_runs \/ derive_metrics

SpecPartition == InitPartition /\ [][NextPartition]_vars

\* C7: the metric derived from the merged states of the partition runs is,
\* for each requested additive property, the metric of the direct run on the
\* whole dataset.
C7_PartitionEquivalence ==
    (derived.done /\ analysis[FALSE].done /\ analysis[FALSE].raised = "") =>
        /\ derived.raised = ""
        /\ \A p \in Range(run_analyzers) :
                /\ p \in DOMAIN derived.metrics
                /\ derived.metrics[p] = analysis[FALSE].metric_map[p]

(***************************************************************************)
(* Specification SpecCompute: one dataset table, one list of requested     *)
(* properties, some of them filtered or without a usable operator, and     *)
(* SQLEngine.compute_metrics on it with and without aggregation sharing    *)
(***************************************************************************)
ComputeFilter == Some("att1 > 1")

ComputeCells == {NULL, Num(2)}

ComputeTables ==
    {[schema |-> [att1 |-> "BIGINT"], rows |-> rows] :
        rows \in SeqsUpTo({[att1 |-> v] : v \in ComputeCells}, MaxRows)}

ComputeProps ==
    {Size(None), Size(ComputeFilter), Property("Mean", "att1", ComputeFilter),
     Property("Completeness", "att1", None), Property("Uniqueness", "att1", None),
     Property("Distinctness", "att1", None), Property("Uniqueness", "att1", ComputeFilter),
     Property("Quantile", "att1", None), Property("Entropy", "att1", None)}

\* DuckDBMetadataRepository on the connection of the engine
LocalMetadataRepository == [kind |-> "sql", run_id |-> "run", local |-> TRUE]

InitCompute ==
    /\ engine_table \in ComputeTables
    /\ run_analyzers \in SeqsUpTo(ComputeProps, MaxAnalyzers)
    /\ engine_implicit_cast = FALSE
    /\ analysis = [no_sharing \in BOOLEAN |-> NotYet]
    /\ engine_duplicate_names \in {"renamed", "kept"}
    /\ compute_repo \in {InMemoryMetadataRepository, LocalMetadataRepository}
    /\ computed = [no_sharing \in BOOLEAN |-> NotYet]
    /\ ProcessIdle
    /\ FrameIdle
    /\ RepoIdle
    /\ LaterIdle
    /\ CheckIdle
    /\ PropIdle
    /\ MergeIdle
    /\ PartitionIdle

\* the engine of the call with the given no_sharing
ComputeEngine(no_sharing) ==
    [DuckDBEngine(engine_table, no_sharing, engine_implicit_cast)
        EXCEPT !.duplicate_names = engine_duplicate_names]

\* engine.compute_metrics(properties, repo)
compute ==
    \E no_sharing \in BOOLEAN :
        /\ ~computed[no_sharing].done
        /\ computed' = [computed EXCEPT ![no_sharing] =
                [done |-> TRUE] @@
                compute_metrics(ComputeEngine(no_sharing), run_analyzers, compute_repo)]
        /\ UNCHANGED <<checkVars, eqVars, mergeVars, runVars, partitionVars,
                       engine_duplicate_names, compute_repo, processVars, frameVars,
                       repoVars, laterVars>>

NextCompute == compute

SpecCompute == InitCompute /\ [][NextCompute]_vars

\* the aggregation sets of the queries a call issued over the dataset table
TableQueries(run) ==
    {run.events[i].aggregations :
        i \in {j \in DOMAIN run.events :
                run.events[j].ev = "execute_and_fetch" /\ run.events[j].from = "table"}}

\* C11: in the SELECT of the shared first pass no two different aggregation
\* fragments carry the same alias.
C11_SharedAliasesDistinct ==
    computed[FALSE].done =>
        \A aggregations \in TableQueries(computed[FALSE]) :
            \A a, b \in aggregations : a.alias = b.alias => a.sql = b.sql

\* the grouping keys of the requested properties that have a grouping operator
GroupingKeys ==
    {Grouping(create_operator(p).operator.groupings, create_operator(p).operator.num_rows,
              create_operator(p).operator.filter) :
        p \in {q \in Range(run_analyzers) :
                q.name \in {"Uniqueness", "Distinctness", "UniqueValueRatio"}}}

\* the positions of the events of a call that materialise the frequencies
\* table of a grouping key, and of those that run the aggregate query on it
Materialisations(run, key) ==
    {i \in DOMAIN run.events :
        run.events[i].ev = "execute_and_store" /\ run.events[i].grouping = key}

AggregateQueries(run, key) ==
    {i \in DOMAIN run.events :
        /\ run.events[i].ev = "execute_and_fetch"
        /\ run.events[i].from = get_frequency_table_name(compute_repo, identifier(key))
        /\ run.events[i].aggregations # {}}

\* C12: with sharing, a call queries the dataset table at most once, for the
\* fragments of all scan operators and the num_rows counts of all grouping
\* keys together, never materialises or aggregates the frequencies of a grouping key twice, and a
\* call that returned did both exactly once for every grouping key requested.
C12_SharedPasses ==
    computed[FALSE].done =>
        /\ Cardinality({i \in DOMAIN computed[FALSE].events :
                            /\ computed[FALSE].events[i].ev = "execute_and_fetch"
                            /\ computed[FALSE].events[i].from = "table"}) <= 1
        /\ \A aggregations \in TableQueries(computed[FALSE]) :
                aggregations =
                    UNION {create_operator(p).operator.aggregations :
                            p \in {q \in Range(run_analyzers) :
                                    q.name \in {"Size", "Mean", "Completeness"}}}
                    \cup {get_num_rows_aggregation(key) : key \in GroupingKeys}
        /\ \A key \in GroupingKeys :
                /\ Cardinality(Materialisations(computed[FALSE], key)) <= 1
                /\ Cardinality(AggregateQueries(computed[FALSE], key)) <= 1
                /\ computed[FALSE].raised = "" =>
                        /\ Cardinality(Materialisations(computed[FALSE], key)) = 1
                        /\ Cardinality(AggregateQueries(computed[FALSE], key)) = 1

\* a call that returned the metrics of two properties of one grouping key
C12_Witness ==
    /\ computed[FALSE].done
    /\ computed[FALSE].raised = ""
    /\ Cardinality(Range(run_analyzers)) = 2
    /\ Cardinality(GroupingKeys) = 1
    /\ \A p \in Range(run_analyzers) :
            /\ p.name \in {"Uniqueness", "Distinctness"}
            /\ computed[FALSE].metrics[p].value.isSuccess

\* the requested properties the SQL backend has no usable operator for
Unusable == {p \in Range(run_analyzers) : create_operator(p).raised # ""}

\* C13: a call ends as the call without the properties that have no usable
\* operator ends; when it returns, each of them has a failure metric and the
\* other properties have the metrics they have without them.
C13_UnusableKindRecovered ==
    \A no_sharing \in BOOLEAN :
        computed[no_sharing].done =>
            LET others == SelectSeq(run_analyzers, LAMBDA p : p \notin Unusable)
                without == compute_metrics(ComputeEngine(no_sharing), others, compute_repo)
            IN  /\ computed[no_sharing].raised = without.raised
                /\ computed[no_sharing].raised = "" =>
                        /\ \A p \in Unusable :
                                /\ p \in DOMAIN computed[no_sharing].metrics
                                /\ ~computed[no_sharing].metrics[p].value.isSuccess
                        /\ \A p \in Range(others) :
                                computed[no_sharing].metrics[p] = without.metrics[p]

\* the requested properties with an operator to which no row of the table
\* contributes: no row satisfies their where filter
Starved ==
    {p \in Range(run_analyzers) \ Unusable :
        \A i \in DOMAIN engine_table.rows : ~WhereHolds(Where(p), engine_table.rows[i])}

\* C14: a call ends as the call without the properties no row contributes to
\* ends; when it returns, each of them has a metric and the other properties
\* have the metrics they have without them.
C14_NoRowsNotAborted ==
    \A no_sharing \in BOOLEAN :
        computed[no_sharing].done =>
            LET others == SelectSeq(run_analyzers, LAMBDA p : p \notin Starved)
                without == compute_metrics(ComputeEngine(no_sharing), others, compute_repo)
            IN  /\ computed[no_sharing].raised = without.raised
                /\ computed[no_sharing].raised = "" =>
                        /\ \A p \in Starved : p \in DOMAIN computed[no_sharing].metrics
                        /\ \A p \in Range(others) :
                                computed[no_sharing].metrics[p] = without.metrics[p]


\* the requested properties that compute_metrics gave a scan operator
ScanProperties ==
    {p \in Range(run_analyzers) :
        /\ p.name # "Schema"
        /\ create_operator(p).raised = ""
        /\ create_operator(p).operator.base = "ScanShareableOperator"}

\* the positions of the events of the grouping phase of a call: a
\* frequencies table is materialised or read, or a FrequenciesAndNumRows
\* state is registered
GroupingWork(run) ==
    {i \in DOMAIN run.events :
        \/ run.events[i].ev = "execute_and_store"
        \/ run.events[i].ev = "execute_and_fetch" /\ run.events[i].from # "table"
        \/ /\ run.events[i].ev = "register_state"
           /\ run.events[i].state.variant = "FrequenciesAndNumRows"}

\* a state of the scan operator of p was registered before position i
ScanRegisteredBefore(run, p, i) ==
    \E j \in 1..(i - 1) :
        /\ run.events[j].ev = "register_state"
        /\ run.events[j].state.variant # "FrequenciesAndNumRows"
        /\ run.events[j].state.id = property_identifier(p)

\* C20: in a compute_metrics call, with or without no_sharing, every step of
\* the grouping phase comes after the registration of the state of every
\* scan operator of the call.
C20_ScanStatesBeforeGrouping ==
    \A no_sharing \in BOOLEAN :
        computed[no_sharing].done =>
            \A i \in GroupingWork(computed[no_sharing]) :
                \A p \in ScanProperties : ScanRegisteredBefore(computed[no_sharing], p, i)

C20_Witness ==
    /\ ScanProperties # {}
    /\ \A no_sharing \in BOOLEAN :
        /\ computed[no_sharing].done
        /\ computed[no_sharing].raised = ""
        /\ \E i \in GroupingWork(computed[no_sharing]) :
                computed[no_sharing].events[i].ev = "execute_and_store"
        /\ \E i \in GroupingWork(computed[no_sharing]) :
                /\ computed[no_sharing].events[i].ev = "register_state"
                /\ computed[no_sharing].events[i].state.variant = "FrequenciesAndNumRows"

(***************************************************************************)
(* Specification SpecStored: the rows that dq_states holds under the id of *)
(* one required property, of whatever state_type, are rebuilt and merged   *)
(***************************************************************************)
StoredSchemas == {[att1 |-> "BIGINT"], [att1 |-> "VARCHAR"]}

\* the rows of dq_states whose property_id is the id of the required property
StoredRows ==
    LET id == property_identifier(Schema)
    IN  {SchemaState(id, schema) : schema \in StoredSchemas}
        \cup {FrequenciesAndNumRows(id, get_frequency_table_name(InMemoryMetadataRepository, id),
                                    <<"att1">>, num_rows) : num_rows \in {Num(1), Num(2)}}
        \cup {MaxState(id, Num(1)), MinState(id, Num(1)), NumMatches(id, Num(1)),
              NumMatchesAndCount(id, Num(1), Num(2))}

InitStored ==
    /\ RestIdle
    /\ loaded_states = <<>>
    /\ merged = NotYet
    /\ CheckIdle
    /\ PropIdle
    /\ RunIdle
    /\ PartitionIdle

\* StateEngine.merge_states, one turn of the loop over the stored states:
\* StateClass(**state_dict) of the row's state_type is appended to the list
\* of the row's property, whatever the class of the states already in it
load_row ==
    \E state \in StoredRows :
        /\ ~merged.done
        /\ Len(loaded_states) < MaxStates
        /\ loaded_states' = Append(loaded_states, state)
        /\ UNCHANGED <<checkVars, eqVars, merged, runVars, partitionVars, restVars>>

NextStored == load_row \/ merge_states

SpecStored == InitStored /\ [][NextStored]_vars

VariantsLoaded == {loaded_states[i].variant : i \in DOMAIN loaded_states}

\* C15: merging a list of FrequenciesAndNumRows states returns no state and
\* raises StateMergingException.
C15_FrequenciesRaiseStateMerging ==
    (merged.done /\ VariantsLoaded = {"FrequenciesAndNumRows"}) =>
        merged.value.raised = "StateMergingException"

\* the states collected do not all match: they are of several variants, or
\* they are SchemaStates of several schemas
Mismatched ==
    \/ Cardinality(VariantsLoaded) > 1
    \/ /\ VariantsLoaded = {"SchemaState"}
       /\ Cardinality({loaded_states[i].schema : i \in DOMAIN loaded_states}) > 1

\* C16: merging states that do not all match raises and returns no state,
\* and SchemaStates that all match merge to the first of them.
C16_MismatchSurfaced ==
    merged.done =>
        /\ Mismatched => merged.value.raised # ""
        /\ (VariantsLoaded = {"SchemaState"} /\ ~Mismatched) =>
                merged.value = Returned(loaded_states[1])


(***************************************************************************)
(* Specification SpecProcesses: two interpreter processes run the same     *)
(* analysis of the same dataset table, each with the string hash seed it   *)
(* was started with                                                        *)
(***************************************************************************)
\* the orders in which a process can iterate over a set of strings: the
\* slots of the elements follow their hashes, which are salted per process
SetOrders(S) ==
    {order \in [1..Cardinality(S) -> S] : \A i, j \in DOMAIN order : i # j => order[i] # order[j]}

\* ', '.join(items)
RECURSIVE JoinComma(_)
JoinComma(items) ==
    IF items = <<>> THEN ""
    ELSE IF Len(items) = 1 THEN items[1]
    ELSE items[1] \o ", " \o JoinComma(Tail(items))

ProcessProps == {Size(None), Property("MaxLength", "att1", None)}

InitProcesses ==
    /\ engine_table \in Tables
    /\ run_analyzers \in SeqsUpTo(ProcessProps, MaxAnalyzers)
    /\ engine_implicit_cast \in BOOLEAN
    /\ analysis = [no_sharing \in BOOLEAN |-> NotYet]
    /\ set_order \in [Processes -> SetOrders(STRING_TYPES)]
    /\ process_run = [p \in Processes |-> NotYet]
    /\ ComputeIdle
    /\ FrameIdle
    /\ RepoIdle
    /\ LaterIdle
    /\ CheckIdle
    /\ PropIdle
    /\ MergeIdle
    /\ PartitionIdle

\* the engine a process builds over the table
ProcessEngine(p) ==
    [DuckDBEngine(engine_table, FALSE, engine_implicit_cast)
        EXCEPT !.string_types = JoinComma(set_order[p])]

\* do_analysis_run(engine, repo, analyzers) in one of the processes
process_analysis_run ==
    \E p \in Processes :
        /\ ~process_run[p].done
        /\ process_run' = [process_run EXCEPT ![p] =
                do_analysis_run(ProcessEngine(p), InMemoryMetadataRepository, run_analyzers)]
        /\ UNCHANGED <<checkVars, eqVars, mergeVars, runVars, partitionVars, computeVars,
                       set_order, frameVars, repoVars, laterVars>>

NextProcesses == process_analysis_run

SpecProcesses == InitProcesses /\ [][NextProcesses]_vars

\* C17: two independent runs of one property list over one dataset, each in
\* a process of its own, end alike and return equal Property->Metric maps.
C17_RunsDeterministic ==
    (\A p \in Processes : process_run[p].done) =>
        \A p, q \in Processes :
            /\ process_run[p].raised = process_run[q].raised
            /\ process_run[p].metric_map = process_run[q].metric_map


(***************************************************************************)
(* Specification SpecFrames: two PandasEngine instances are created over   *)
(* two data frames (VerificationSuite.on_data) and run, in any order       *)
(***************************************************************************)
FrameProps == {Size(None), Property("Sum", "att1", None)}

\* ConnectionHandler.get_connection("duckdb://:memory:"): [con, handled,
\* connections]: the connection cached under the url, or a new one
get_connection(handled, cons) ==
    IF handled # None THEN [con |-> handled[1], handled |-> handled, connections |-> cons]
    ELSE [con |-> Len(cons) + 1, handled |-> Some(Len(cons) + 1),
          connections |-> Append(cons, [open |-> TRUE, data |-> None])]

\* ConnectionHandler.close_connections: every handled connection is closed
\* and the cache is cleared
close_connections(handled, cons) ==
    [c \in DOMAIN cons |->
        IF handled # None /\ handled[1] = c THEN [cons[c] EXCEPT !.open = FALSE] ELSE cons[c]]

\* PandasEngine.__init__(data): the frame is registered on the connection as
\* the view "data", replacing what was registered under that name
PandasEngine(data, got) ==
    [done |-> TRUE, con |-> got.con, data |-> data, table |-> "data"]

InitFrames ==
    /\ frames \in {f \in [FrameEngines -> Tables] : f[1] # f[2]}
    /\ run_analyzers \in SeqsUpTo(FrameProps, MaxAnalyzers) \ {<<>>}
    /\ engine_implicit_cast = FALSE
    /\ engine_table = [schema |-> [att1 |-> "BIGINT"], rows |-> <<>>]
    /\ analysis = [no_sharing \in BOOLEAN |-> NotYet]
    /\ handled_connections = None
    /\ connections = <<>>
    /\ frame_engines = [e \in FrameEngines |-> NotYet]
    /\ frame_runs = [e \in FrameEngines |-> NotYet]
    /\ ComputeIdle
    /\ ProcessIdle
    /\ RepoIdle
    /\ LaterIdle
    /\ CheckIdle
    /\ PropIdle
    /\ MergeIdle
    /\ PartitionIdle

OnData(e, got) ==
    /\ handled_connections' = got.handled
    /\ connections' = [got.connections EXCEPT ![got.con].data = Some(frames[e])]
    /\ frame_engines' = [frame_engines EXCEPT ![e] = PandasEngine(frames[e], got)]

\* VerificationSuite.on_data(data)
on_data ==
    \E e \in FrameEngines :
        /\ ~frame_engines[e].done
        /\ OnData(e, get_connection(handled_connections, connections))
        /\ UNCHANGED <<checkVars, eqVars, mergeVars, runVars, partitionVars, computeVars,
                       processVars, frames, frame_runs, repoVars,
                       laterVars>>

\* the end of do_verification_run: close_connections is reached when the
\* analysis returned
VerificationRun(e, analysis_result) ==
    /\ frame_runs' = [frame_runs EXCEPT ![e] =
            [done |-> TRUE, raised |-> analysis_result.raised,
             metric_map |-> analysis_result.metric_map]]
    /\ IF analysis_result.raised # ""
       THEN UNCHANGED <<handled_connections, connections>>
       ELSE /\ connections' = close_connections(handled_connections, connections)
            /\ handled_connections' = None

\* VerificationRunBuilder.run() on an engine: do_verification_run; the
\* engine's queries read the view "data" of its connection, and a closed
\* connection raises the database's error for it
frame_run ==
    \E e \in FrameEngines :
        /\ frame_engines[e].done
        /\ ~frame_runs[e].done
        /\ IF ~connections[frame_engines[e].con].open
           THEN /\ frame_runs' = [frame_runs EXCEPT ![e] =
                        [done |-> TRUE, raised |-> "ConnectionException", metric_map |-> <<>>]]
                /\ UNCHANGED <<handled_connections, connections>>
           ELSE VerificationRun(e,
                    do_analysis_run(
                        DuckDBEngine(connections[frame_engines[e].con].data[1], FALSE,
                                     engine_implicit_cast),
                        InMemoryMetadataRepository, run_analyzers))
        /\ UNCHANGED <<checkVars, eqVars, mergeVars, runVars, partitionVars, computeVars,
                       processVars, frames, frame_engines, repoVars,
                       laterVars>>

NextFrames == on_data \/ frame_run

SpecFrames == InitFrames /\ [][NextFrames]_vars

\* C18: whatever the order in which two engines over different data frames
\* are created and run, no run fails because the other run closed its
\* connection, and a run that returned holds the metrics of the data frame
\* its engine was created with.
C18_FrameRunsIndependent ==
    \A e \in FrameEngines :
        frame_runs[e].done =>
            /\ frame_runs[e].raised # "ConnectionException"
            /\ frame_runs[e].raised = "" =>
                    frame_runs[e].metric_map =
                        do_analysis_run(DuckDBEngine(frames[e], FALSE, engine_implicit_cast),
                                        InMemoryMetadataRepository, run_analyzers).metric_map


(***************************************************************************)
(* Specification SpecRepo: a SQL-backed metadata repository is constructed *)
(* and then told its dataset, handed states, metrics and checks, in any    *)
(* order                                                                   *)
(***************************************************************************)
\* str(uuid.uuid4()): the n-th value drawn; no two draws are equal
Uuid(n) == "uuid" \o ToString(n)

\* MetadataRepository.set_dataset(dataset_id, partition_id), after `uuids`
\* draws: the run_id is a new uuid, and so is each id that is not given
BaseSetDataset(dataset_id, partition_id, uuids) ==
    [run_id |-> Uuid(uuids + 1),
     dataset_id |-> IF dataset_id = None THEN Uuid(uuids + 2) ELSE dataset_id[1],
     partition_id |-> IF partition_id = None
                      THEN Uuid(uuids + (IF dataset_id = None THEN 3 ELSE 2))
                      ELSE partition_id[1],
     uuids |-> uuids + 1 + (IF dataset_id = None THEN 1 ELSE 0)
                     + (IF partition_id = None THEN 1 ELSE 0)]

\* the states, metrics and checks handed to the repository
RepoStates ==
    {NumMatches(property_identifier(Size(None)), Num(1)),
     FrequenciesAndNumRows("freq", "dq_state_freq_1", <<"att1">>, Num(1))}
RepoMetrics == SeqsUpTo({Size(None)}, 1)
RepoChecks == SeqsUpTo({[description |-> "check", level |-> "ERROR"]}, 1)

InitRepo ==
    /\ repo_run_id = None
    /\ uuids_minted = 0
    /\ dq_validation_runs = <<>>
    /\ repo_rows = <<>>
    /\ ComputeIdle
    /\ ProcessIdle
    /\ FrameIdle
    /\ LaterIdle
    /\ CheckIdle
    /\ PropIdle
    /\ MergeIdle
    /\ RunIdle
    /\ PartitionIdle

RepoUnchanged ==
    UNCHANGED <<checkVars, eqVars, mergeVars, runVars, partitionVars, computeVars,
                processVars, frameVars, laterVars>>

\* SQLMetadataRepository.__init__: the tables are created if missing and
\* the set_dataset of the base class is called, which logs no row
sql_repository_init ==
    /\ repo_run_id = None
    /\ LET ids == BaseSetDataset(None, None, uuids_minted)
       IN  /\ repo_run_id' = Some(ids.run_id)
           /\ uuids_minted' = ids.uuids
    /\ UNCHANGED <<dq_validation_runs, repo_rows>>
    /\ RepoUnchanged

\* SQLMetadataRepository.set_dataset: the set_dataset of the base class,
\* then __log_run__
sql_set_dataset ==
    \E dataset_id \in {None, Some("dataset")}, partition_id \in {None, Some("partition")} :
        /\ repo_run_id # None
        /\ Len(dq_validation_runs) < MaxRuns
        /\ LET ids == BaseSetDataset(dataset_id, partition_id, uuids_minted)
           IN  /\ repo_run_id' = Some(ids.run_id)
               /\ uuids_minted' = ids.uuids
               /\ dq_validation_runs' = Append(dq_validation_runs,
                        [run_id |-> ids.run_id, dataset_id |-> ids.dataset_id,
                         partition_id |-> ids.partition_id])
        /\ UNCHANGED repo_rows
        /\ RepoUnchanged

\* SQLMetadataRepository.register_state
sql_register_state ==
    \E state \in RepoStates :
        /\ repo_run_id # None
        /\ Len(repo_rows) < MaxRepoRows
        /\ repo_rows' = Append(repo_rows,
                [table |-> "dq_states",
                 row |-> StateRow(SQLMetadataRepository(repo_run_id[1]), state)])
        /\ UNCHANGED <<repo_run_id, uuids_minted, dq_validation_runs>>
        /\ RepoUnchanged

\* SQLMetadataRepository.store_metrics: one row per metric
sql_store_metrics ==
    \E metrics \in RepoMetrics :
        /\ repo_run_id # None
        /\ Len(repo_rows) + Len(metrics) <= MaxRepoRows
        /\ repo_rows' = repo_rows \o
                [i \in DOMAIN metrics |->
                    [table |-> "dq_metrics",
                     row |-> [run_id |-> repo_run_id[1],
                              property_id |-> property_identifier(metrics[i]),
                              metric_type |-> "Metric"]]]
        /\ UNCHANGED <<repo_run_id, uuids_minted, dq_validation_runs>>
        /\ RepoUnchanged

\* SQLMetadataRepository.store_checks: one row per check
sql_store_checks ==
    \E stored \in RepoChecks :
        /\ repo_run_id # None
        /\ Len(repo_rows) + Len(stored) <= MaxRepoRows
        /\ repo_rows' = repo_rows \o
                [i \in DOMAIN stored |->
                    [table |-> "dq_checks",
                     row |-> [run_id |-> repo_run_id[1],
                              check_description |-> stored[i].description,
                              check_level |-> stored[i].level]]]
        /\ UNCHANGED <<repo_run_id, uuids_minted, dq_validation_runs>>
        /\ RepoUnchanged

NextRepo ==
    \/ sql_repository_init
    \/ sql_set_dataset
    \/ sql_register_state
    \/ sql_store_metrics
    \/ sql_store_checks

SpecRepo == InitRepo /\ [][NextRepo]_vars

\* C19: every run_id found in a row of dq_states, dq_metrics or dq_checks
\* has exactly one row in dq_validation_runs, and no two rows of
\* dq_validation_runs carry the same run_id.
C19_RowsUnderLoggedRuns ==
    /\ \A i \in DOMAIN repo_rows :
            Cardinality({j \in DOMAIN dq_validation_runs :
                            dq_validation_runs[j].run_id = repo_rows[i].row.run_id}) = 1
    /\ \A i, j \in DOMAIN dq_validation_runs :
            i # j => dq_validation_runs[i].run_id # dq_validation_runs[j].run_id


(***************************************************************************)
(* Specification SpecBuild: Check objects are made one from the other with *)
(* add_constraint, has_approx_distinctness, is_approx_distinct and where,  *)
(* and each of them is evaluated on one metric map                         *)
(***************************************************************************)
\* repr of an object handed over in the place of the assertion callable
Repr(x) == IF x = None THEN "None" ELSE x[1]

\* constraints.approx_distinctness_constraint(column, quantile, assertion,
\* where, hint)
approx_distinctness_constraint(column, quantile, assertion, where, hint) ==
    HintedConstraint("ApproxDistinctness",
                     Property("ApproxDistinctness", column, where), assertion, hint)

\* the creation_func of has_approx_distinctness and is_approx_distinct:
\* `lambda filter_: approx_distinctness_constraint(column, assertion,
\* filter_, hint)`, four arguments bound by position
CreateReplacement(args, filter_) ==
    approx_distinctness_constraint(args.column, args.assertion, Repr(filter_), args.hint, None)

\* Check._add_filterable_constraint: [check, op, create_replacement]
AddFilterableConstraint(check, op, args) ==
    [check |-> AddConstraint(check, CreateReplacement(args, None)),
     op |-> op, create_replacement |-> Some(args)]

\* CheckWithLastConstraintFilterable.where
WhereCheck(entry, query) ==
    [check |-> Check(entry.check.level, entry.check.description,
                     SubSeq(entry.check.constraints, 1, Len(entry.check.constraints) - 1)
                        \o <<CreateReplacement(entry.create_replacement[1], query)>>),
     op |-> "where", create_replacement |-> None]

BuildProps ==
    {Property("Completeness", "att1", None), Property("ApproxDistinctness", "att1", None),
     Property("ApproxDistinctness", "att1", Some("hint"))}

BuildOutcomes == {Success(Num(1)), Success(Num(0)), Failure("failed")}

BuildMetricMaps ==
    UNION {{[p \in S |-> Metric(p.entity, p.name, p.instance, f[p])] : f \in [S -> BuildOutcomes]}
           : S \in SUBSET BuildProps}

BuildConstraints ==
    {Constraint("CompletenessConstraint", Property("Completeness", "att1", None), a) :
        a \in {"is_one", "raises"}}

Hints == {None, Some("hint")}

InitBuild ==
    /\ built \in {<<[check |-> Check(level, "mycheck", <<>>), op |-> "Check",
                    create_replacement |-> None]>> : level \in CheckLevels}
    /\ built_results = NotYet
    /\ checks = <<>>
    /\ metric_map \in BuildMetricMaps
    /\ verification_result = NotYet
    /\ ComputeIdle
    /\ ProcessIdle
    /\ FrameIdle
    /\ RepoIdle
    /\ PropIdle
    /\ MergeIdle
    /\ RunIdle
    /\ PartitionIdle

LastBuilt == built[Len(built)]

BuildUnchanged ==
    UNCHANGED <<checkVars, eqVars, mergeVars, runVars, partitionVars, computeVars,
                processVars, frameVars, repoVars, built_results>>

\* check.add_constraint(constraint) on the newest check
add_constraint ==
    \E constraint \in BuildConstraints :
        /\ ~built_results.done
        /\ Len(LastBuilt.check.constraints) < MaxConstraints
        /\ built' = Append(built,
                [check |-> AddConstraint(LastBuilt.check, constraint),
                 op |-> "add_constraint", create_replacement |-> None])
        /\ BuildUnchanged

\* check.has_approx_distinctness(column, assertion, hint) on the newest check
has_approx_distinctness ==
    \E hint \in Hints :
        /\ ~built_results.done
        /\ Len(LastBuilt.check.constraints) < MaxConstraints
        /\ built' = Append(built,
                AddFilterableConstraint(LastBuilt.check, "has_approx_distinctness",
                    [column |-> "att1", assertion |-> "is_positive", hint |-> hint]))
        /\ BuildUnchanged

\* check.is_approx_distinct(column, hint=hint) on the newest check, with the
\* default assertion is_approx_one
is_approx_distinct ==
    \E hint \in Hints :
        /\ ~built_results.done
        /\ Len(LastBuilt.check.constraints) < MaxConstraints
        /\ built' = Append(built,
                AddFilterableConstraint(LastBuilt.check, "is_approx_distinct",
                    [column |-> "att1", assertion |-> "is_approx_one", hint |-> hint]))
        /\ BuildUnchanged

\* check.where(query) on the newest check, when its last constraint is
\* filterable
where ==
    \E query \in {Some("att1 > 0")} :
        /\ ~built_results.done
        /\ LastBuilt.create_replacement # None
        /\ built' = Append(built, WhereCheck(LastBuilt, query))
        /\ BuildUnchanged

\* Check.evaluate of every check made, on the metric map; calls[j] are the
\* values the assertion of constraint j was invoked on
build_evaluate ==
    /\ ~built_results.done
    /\ built_results' =
        [done |-> TRUE,
         results |-> [i \in DOMAIN built |-> CheckEvaluate(built[i].check, metric_map)],
         calls |-> [i \in DOMAIN built |->
                        [j \in DOMAIN built[i].check.constraints |->
                            ConstraintEvaluated(built[i].check.constraints[j],
                                                metric_map).calls]]]
    /\ UNCHANGED <<checkVars, eqVars, mergeVars, runVars, partitionVars, computeVars,
                   processVars, frameVars, repoVars, built>>

NextBuild ==
    \/ add_constraint
    \/ has_approx_distinctness
    \/ is_approx_distinct
    \/ where
    \/ build_evaluate

SpecBuild == InitBuild /\ [][NextBuild]_vars

\* the constraints of check i whose assertion raises when it is invoked
\* and whose metric is a Success
RaisingAt(i) ==
    {j \in DOMAIN built[i].check.constraints :
        /\ built[i].check.constraints[j].assertion = "raises"
        /\ MapGet(metric_map, built[i].check.constraints[j].analyzer) # None
        /\ MapGet(metric_map, built[i].check.constraints[j].analyzer)[1].value.isSuccess}

\* C21: a constraint whose assertion raises gets the result FAILURE with a
\* message that starts with "Can't execute the assertion", and the check's
\* constraint_results hold one result per constraint, in constraint order.
C21_RaisingAssertionReported ==
    built_results.done =>
        \A i \in DOMAIN built :
            /\ Len(built_results.results[i].constraint_results)
                    = Len(built[i].check.constraints)
            /\ \A j \in DOMAIN built[i].check.constraints :
                    built_results.results[i].constraint_results[j].constraint
                        = built[i].check.constraints[j]
            /\ \A j \in RaisingAt(i) :
                    /\ built_results.results[i].constraint_results[j].status = "FAILURE"
                    /\ built_results.results[i].constraint_results[j].message
                            = "Can't execute the assertion" \o ": boom"

C21_Witness ==
    /\ built_results.done
    /\ \E i \in DOMAIN built :
            /\ Len(built[i].check.constraints) = 2
            /\ RaisingAt(i) = {1}
            /\ built_results.results[i].constraint_results[2].status = "SUCCESS"

\* C22: a constraint whose property has no metric in the map is a FAILURE
\* with the missing-analysis message, a constraint whose metric is a Failure
\* is a FAILURE with the message of that Failure, and in neither case is the
\* assertion invoked.
C22_NoMetricNoAssertion ==
    built_results.done =>
        \A i \in DOMAIN built :
            \A j \in DOMAIN built[i].check.constraints :
                LET k == built[i].check.constraints[j]
                    r == built_results.results[i].constraint_results[j]
                IN  /\ (\A p \in DOMAIN metric_map : p # k.analyzer) =>
                            /\ r.status = "FAILURE"
                            /\ r.message = "Missing Analysis, can't run the constraint!"
                            /\ built_results.calls[i][j] = <<>>
                    /\ (k.analyzer \in DOMAIN metric_map
                            /\ ~metric_map[k.analyzer].value.isSuccess) =>
                            /\ r.status = "FAILURE"
                            /\ r.message = metric_map[k.analyzer].value.message
                            /\ built_results.calls[i][j] = <<>>

C22_Witness ==
    /\ built_results.done
    /\ \E i \in DOMAIN built :
            /\ Len(built[i].check.constraints) = 2
            /\ built[i].check.constraints[1].assertion = "raises"
            /\ built[i].check.constraints[1].analyzer \in DOMAIN metric_map
            /\ ~metric_map[built[i].check.constraints[1].analyzer].value.isSuccess
            /\ built[i].check.constraints[2].analyzer \notin DOMAIN metric_map

\* C23: the check returned by add_constraint has a status at least that of
\* the check it was called on, which keeps its constraints: the new check
\* has them followed by the added constraint.
C23_AddConstraintMonotone ==
    \A i \in DOMAIN built :
        (i > 1 /\ built[i].op = "add_constraint") =>
            /\ SubSeq(built[i].check.constraints, 1, Len(built[i].check.constraints) - 1)
                    = built[i - 1].check.constraints
            /\ Len(built[i].check.constraints) = Len(built[i - 1].check.constraints) + 1
            /\ built_results.done =>
                    built_results.results[i].status >= built_results.results[i - 1].status

C23_Witness ==
    /\ built_results.done
    /\ \E i \in DOMAIN built :
            /\ i > 1
            /\ built[i].op = "add_constraint"
            /\ built[i - 1].check.constraints # <<>>
            /\ built_results.results[i - 1].status = SUCCESS
            /\ built_results.results[i].status = ERROR

\* C28: the constraint added by has_approx_distinctness or
\* is_approx_distinct measures ApproxDistinctness of the column without a
\* filter, and is a SUCCESS exactly when the metric is a Success on whose
\* value the given assertion is true.
C28_ApproxDistinctnessConstraint ==
    \A i \in DOMAIN built :
        built[i].op \in {"has_approx_distinctness", "is_approx_distinct"} =>
            LET k == built[i].check.constraints[Len(built[i].check.constraints)]
                given == built[i].create_replacement[1]
                wanted == Property("ApproxDistinctness", given.column, None)
            IN  /\ k.analyzer = wanted
                /\ built_results.done =>
                    ((built_results.results[i].constraint_results[
                            Len(built[i].check.constraints)].status = "SUCCESS")
                     <=> (/\ wanted \in DOMAIN metric_map
                          /\ metric_map[wanted].value.isSuccess
                          /\ run_assertion(given.assertion, metric_map[wanted].value.value).ok))


(***************************************************************************)
(* Specification SpecGrouping: compute_metrics on one table for lists of   *)
(* grouping properties over one column, with and without a filter          *)
(***************************************************************************)
GroupingCells == {NULL, Num(1), Num(2)}

GroupingTables ==
    {[schema |-> [att1 |-> "BIGINT"], rows |-> rows] :
        rows \in SeqsUpTo({[att1 |-> v] : v \in GroupingCells}, MaxRows)}

GroupingProps ==
    {Property(name, "att1", w) :
        name \in {"Uniqueness", "Distinctness", "UniqueValueRatio"},
        w \in {None, ComputeFilter}}

InitGrouping ==
    /\ engine_table \in GroupingTables
    /\ run_analyzers \in SeqsUpTo(GroupingProps, MaxAnalyzers)
    /\ engine_implicit_cast = FALSE
    /\ analysis = [no_sharing \in BOOLEAN |-> NotYet]
    /\ engine_duplicate_names = "renamed"
    /\ compute_repo \in {InMemoryMetadataRepository, LocalMetadataRepository}
    /\ computed = [no_sharing \in BOOLEAN |-> NotYet]
    /\ ProcessIdle
    /\ FrameIdle
    /\ RepoIdle
    /\ LaterIdle
    /\ CheckIdle
    /\ PropIdle
    /\ MergeIdle
    /\ PartitionIdle

SpecGrouping == InitGrouping /\ [][NextCompute]_vars

\* the rows of the table that satisfy the filter of a property
RowsUnder(p) == SelectSeq(engine_table.rows, LAMBDA r : WhereHolds(Where(p), r))

\* the values of the column of p that occur in those rows, and those that
\* occur in exactly one of them
DistinctValues(p) == {RowsUnder(p)[i][p.instance] : i \in DOMAIN RowsUnder(p)}

UniqueValues(p) ==
    {v \in DistinctValues(p) :
        Cardinality({i \in DOMAIN RowsUnder(p) : RowsUnder(p)[i][p.instance] = v}) = 1}

\* a quotient of two counts, undefined (NaN) over a zero count
Ratio(n, d) == IF d = 0 THEN NaN ELSE Frac(n, d)

\* the ratio of a grouping property over the rows under its filter
GroupingRatio(p) ==
    CASE p.name = "Uniqueness" ->
            Ratio(Cardinality(UniqueValues(p)), Len(RowsUnder(p)))
      [] p.name = "Distinctness" ->
            Ratio(Cardinality(DistinctValues(p)), Len(RowsUnder(p)))
      [] p.name = "UniqueValueRatio" ->
            Ratio(Cardinality(UniqueValues(p)), Cardinality(DistinctValues(p)))

FilterableScans ==
    {"Size", "Completeness", "Minimum", "Maximum", "Mean", "Sum", "MinLength",
     "MaxLength"}

WhereProps ==
    {Property(name, IF name = "Size" THEN "*" ELSE "att1", w) :
        name \in FilterableScans, w \in {None, ComputeFilter}}

InitWhere ==
    /\ engine_table \in GroupingTables
    /\ run_analyzers \in SeqsUpTo(WhereProps, MaxAnalyzers)
    /\ engine_implicit_cast \in BOOLEAN
    /\ analysis = [no_sharing \in BOOLEAN |-> NotYet]
    /\ engine_duplicate_names = "renamed"
    /\ compute_repo = InMemoryMetadataRepository
    /\ computed = [no_sharing \in BOOLEAN |-> NotYet]
    /\ ProcessIdle
    /\ FrameIdle
    /\ RepoIdle
    /\ LaterIdle
    /\ CheckIdle
    /\ PropIdle
    /\ MergeIdle
    /\ PartitionIdle

SpecWhere == InitWhere /\ [][NextCompute]_vars

\* the same property without its filter
Unfiltered(p) == Property(p.name, p.instance, None)

\* compute_metrics for the property without its filter on a table of only
\* the rows that satisfy the filter
OverFilteredRows(p, no_sharing) ==
    compute_metrics(
        DuckDBEngine([engine_table EXCEPT !.rows = RowsUnder(p)], no_sharing,
                     engine_implicit_cast),
        <<Unfiltered(p)>>, compute_repo)

\* on a table with rows, the metric of p under its filter is the metric over
\* the filtered rows
FilteredAsOverFilteredRows(p, no_sharing, over) ==
    (/\ engine_table.rows # <<>>
     /\ over.raised = ""
     /\ over.metrics[Unfiltered(p)].value.isSuccess) =>
        /\ computed[no_sharing].raised = ""
        /\ p \in DOMAIN computed[no_sharing].metrics
        /\ computed[no_sharing].metrics[p].value = over.metrics[Unfiltered(p)].value

\* C25: after compute_metrics, every requested property with a filter whose
\* kind is Size, Completeness, Minimum, Maximum, Mean, Sum, MinLength or
\* MaxLength has, under its own key, the metric that the property without
\* the filter has on the rows that satisfy the filter (where that exists).
C25_FilteredMetrics ==
    \A no_sharing \in BOOLEAN :
        computed[no_sharing].done =>
            \A p \in Range(run_analyzers) :
                p.where # None =>
                    FilteredAsOverFilteredRows(p, no_sharing, OverFilteredRows(p, no_sharing))


(***************************************************************************)
(* Specification SpecMatches: a dataset in two partitions, each verified   *)
(* in a run of its own for one Completeness, Compliance or PatternMatch    *)
(* property with or without a filter, and the states of the runs merged    *)
(***************************************************************************)
MatchFilter == Some("att1 > 0")

MatchProps ==
    {Property("Completeness", "att1", w) : w \in {None, MatchFilter}}
        \cup {Compliance("rule", "att1 > 1", w) : w \in {None, MatchFilter}}
        \cup {PatternMatch("att1", "2", w) : w \in {None, MatchFilter}}

InitMatches ==
    /\ RestIdle
    /\ partitions \in [1..2 -> GroupingTables]
    /\ engine_table = [schema |-> [att1 |-> "BIGINT"], rows |-> ConcatRows(partitions, 1)]
    /\ run_analyzers \in {<<p>> : p \in MatchProps}
    /\ engine_implicit_cast \in BOOLEAN
    /\ analysis = [no_sharing \in BOOLEAN |-> NotYet]
    /\ verified = 0
    /\ dq_states = <<>>
    /\ merged_states = NotYet
    /\ derived = NotYet
    /\ CheckIdle
    /\ PropIdle
    /\ MergeIdle

SpecMatches == InitMatches /\ [][NextPartition]_vars

\* 0 <= num_matches <= count
MatchesWithinCount(state) ==
    /\ ~Lt(state.num_matches, Num(0))
    /\ ~Gt(state.num_matches, state.count)

\* C26: every NumMatchesAndCount state a run registered for Completeness,
\* Compliance or PatternMatch, and the state merged from the states of the
\* runs, has 0 <= num_matches <= count, and a metric derived from the merged
\* state is a ratio between 0 and 1.
C26_MatchesWithinCount ==
    /\ \A i \in DOMAIN dq_states :
            dq_states[i].state_type = "NumMatchesAndCount" =>
                MatchesWithinCount(dq_states[i].state_serialized)
    /\ (merged_states.done /\ merged_states.raised = "") =>
            \A p \in Range(run_analyzers) :
                /\ merged_states.states[p].variant = "NumMatchesAndCount"
                /\ MatchesWithinCount(merged_states.states[p])
    /\ (derived.done /\ derived.raised = "") =>
            \A p \in Range(run_analyzers) :
                /\ derived.metrics[p].value.isSuccess
                /\ ~Lt(derived.metrics[p].value.value, Num(0))
                /\ ~Gt(derived.metrics[p].value.value, Num(1))

C26_Witness ==
    /\ derived.done
    /\ derived.raised = ""
    /\ Len(dq_states) = 2
    /\ \A i \in DOMAIN dq_states :
            /\ Gt(dq_states[i].state_serialized.num_matches, Num(0))
            /\ Lt(dq_states[i].state_serialized.num_matches,
                  dq_states[i].state_serialized.count)
    /\ \E p \in Range(run_analyzers) :
            /\ p.where # None
            /\ Gt(derived.metrics[p].value.value, Num(0))
            /\ Lt(derived.metrics[p].value.value, Num(1))


(***************************************************************************)
(* engines/pandas/pandas_engine.py: PandasEngine.compute_metrics           *)
(***************************************************************************)
\* self.data[column].to_numpy()
DataCol(data, column) == [i \in 1..Len(data.rows) |-> data.rows[i][column]]

\* the dtype of a column of integers: float64 once a value is missing
SketchType(data_col) ==
    IF \E i \in DOMAIN data_col : IsNull(data_col[i]) THEN "floats" ELSE "ints"

\* one turn of the loop over the Quantile properties; a KLL sketch of floats
\* skips the missing values
QuantileComputed(quantile_property, data_col, kll, run) ==
    [run EXCEPT
        !.events = Append(@, Registered(
            QuantileState(property_identifier(quantile_property), SerializeHex(kll),
                          kll_get_quantile(kll, quantile_property.quantile),
                          SketchType(data_col)))),
        !.metrics = DictPut(@, quantile_property,
            metric_from_value(kll_get_quantile(kll, quantile_property.quantile),
                              quantile_property.name, quantile_property.instance,
                              quantile_property.entity))]

\* one turn of the loop over the ApproxDistinctness properties
ApproxDistinctComputed(approx_distinct_property, num_rows, hll, run) ==
    LET registered ==
            [run EXCEPT !.events = Append(@, Registered(
                ApproxDistinctState(property_identifier(approx_distinct_property),
                                    SerializeHex(hll), hll_get_estimate(hll), num_rows)))]
        r == approx_distinctness(hll_get_estimate(hll), num_rows)
    IN  IF r.raised # "" THEN [registered EXCEPT !.raised = r.raised]
        ELSE [registered EXCEPT !.metrics = DictPut(@, approx_distinct_property,
                metric_from_value(r.value, approx_distinct_property.name,
                                  approx_distinct_property.instance,
                                  approx_distinct_property.entity))]

\* the two loops over the sketch properties, each in the order of the list
RECURSIVE SketchLoop(_, _, _, _, _)
SketchLoop(data, properties, name, i, run) ==
    IF i > Len(properties) \/ run.raised # "" THEN run
    ELSE IF properties[i].name # name THEN SketchLoop(data, properties, name, i + 1, run)
    ELSE IF name = "Quantile"
    THEN SketchLoop(data, properties, name, i + 1,
            QuantileComputed(properties[i], DataCol(data, properties[i].column),
                kll_update(SelectSeq(DataCol(data, properties[i].column),
                                     LAMBDA v : ~IsNull(v))),
                run))
    ELSE SketchLoop(data, properties, name, i + 1,
            ApproxDistinctComputed(properties[i],
                Num(Len(DataCol(data, properties[i].column))),
                hll_update(DataCol(data, properties[i].column)), run))

\* the end of compute_metrics: the metrics of the SQL engine updated with
\* those of the sketches
SketchesAdded(sketched, metrics) ==
    IF metrics.raised # ""
    THEN [raised |-> metrics.raised, metrics |-> <<>>,
          events |-> sketched.events \o metrics.events]
    ELSE [raised |-> "", metrics |-> AnalyzerContextAdd(metrics.metrics, sketched.metrics),
          events |-> sketched.events \o metrics.events]

\* after the loops over the sketch properties
SketchesComputed(data, properties, repo, implicit_cast, sketched) ==
    IF sketched.raised # "" THEN sketched
    ELSE SketchesAdded(sketched,
            compute_metrics(DuckDBEngine(data, FALSE, implicit_cast),
                SelectSeq(properties,
                          LAMBDA p : p.name \notin {"Quantile", "ApproxDistinctness"}),
                repo))

\* PandasEngine.compute_metrics: [raised, metrics, events]
pandas_compute_metrics(data, properties, repo, implicit_cast) ==
    SketchesComputed(data, properties, repo, implicit_cast,
        SketchLoop(data, properties, "ApproxDistinctness", 1,
            SketchLoop(data, properties, "Quantile", 1,
                       [raised |-> "", metrics |-> <<>>, events |-> <<>>])))

(***************************************************************************)
(* Specification SpecSketch: one run of a PandasEngine over a data frame   *)
(* against a SQL repository, the states of the run merged and the metrics  *)
(* derived from the merged states                                          *)
(***************************************************************************)
SketchCells == {Num(1), Num(2)}

SketchFrames ==
    {[schema |-> [att1 |-> "BIGINT"], rows |-> rows] :
        rows \in SeqsUpTo({[att1 |-> v] : v \in SketchCells}, MaxRows) \ {<<>>}}

SketchProps ==
    {Quantile("att1", Frac(1, 2), None), ApproxDistinctness("att1", None), Size(None)}
        \cup {Property(name, "att1", None) :
                name \in {"Completeness", "Mean", "Sum", "Maximum", "Minimum"}}

InitSketch ==
    /\ RestIdle
    /\ partitions \in {<<data>> : data \in SketchFrames}
    /\ engine_table = partitions[1]
    /\ run_analyzers \in DistinctLists(SketchProps, MaxAnalyzers) \ {<<>>}
    /\ engine_implicit_cast = FALSE
    /\ analysis = [no_sharing \in BOOLEAN |-> NotYet]
    /\ verified = 0
    /\ dq_states = <<>>
    /\ merged_states = NotYet
    /\ derived = NotYet
    /\ CheckIdle
    /\ PropIdle
    /\ MergeIdle

\* the run after engine.compute_metrics: its states are in dq_states
PandasRun(repo, run) ==
    /\ dq_states' = dq_states \o RegisteredRows(repo, run.events, 1)
    /\ analysis' = [analysis EXCEPT ![FALSE] =
            [done |-> TRUE, raised |-> run.raised, metric_map |-> run.metrics,
             engine_metrics |-> run.metrics, events |-> run.events]]

\* a run of the PandasEngine over the data frame
pandas_run ==
    /\ verified < Len(partitions)
    /\ PandasRun(SQLMetadataRepository(RunId(verified + 1)),
                 pandas_compute_metrics(partitions[verified + 1], run_analyzers,
                                        SQLMetadataRepository(RunId(verified + 1)),
                                        engine_implicit_cast))
    /\ verified' = verified + 1
    /\ UNCHANGED <<checkVars, eqVars, mergeVars, engine_table, run_analyzers,
                   engine_implicit_cast, partitions, merged_states, derived, restVars>>

NextSketch == pandas_run \/ merge_runs \/ derive_metrics

SpecSketch == InitSketch /\ [][NextSketch]_vars

\* C27: when the run returned, its states merge, and the metrics derived
\* from the merged states are, for every requested property, the metrics
\* the run returned.
C27_DerivedAsRun ==
    (analysis[FALSE].done /\ analysis[FALSE].raised = "") =>
        /\ merged_states.done => merged_states.raised = ""
        /\ derived.done =>
            /\ derived.raised = ""
            /\ \A p \in Range(run_analyzers) :
                    /\ p \in DOMAIN derived.metrics
                    /\ derived.metrics[p] = analysis[FALSE].metric_map[p]


(***************************************************************************)
(* Specification SpecIdentifier: two properties, among them properties     *)
(* with an empty filter and with columns and filters that end or begin     *)
(* with the name of the entity, are compared and their identifiers taken   *)
(***************************************************************************)
IdentifierProps ==
    {Property(name, column, w) :
        name \in {"Completeness", "Mean"},
        column \in {"att1", "att1COLUMN"},
        w \in {None, Some(""), Some("COLUMN")}}

InitIdentifier ==
    /\ RestIdle
    /\ prop_a \in IdentifierProps
    /\ prop_b \in IdentifierProps
    /\ eq_result = NotYet
    /\ CheckIdle
    /\ MergeIdle
    /\ RunIdle
    /\ PartitionIdle

\* a == b, a.property_identifier() and b.property_identifier()
identify_properties ==
    /\ ~eq_result.done
    /\ eq_result' = [done |-> TRUE, value |-> PropertyEq(prop_a, prop_b),
                     id_a |-> property_identifier(prop_a),
                     id_b |-> property_identifier(prop_b)]
    /\ UNCHANGED <<checkVars, prop_a, prop_b, mergeVars, runVars, partitionVars, restVars>>

NextIdentifier == identify_properties

SpecIdentifier == InitIdentifier /\ [][NextIdentifier]_vars

\* C29: two properties that differ in their name, instance, entity or where
\* filter have different identifiers.
C29_IdentifierInjective ==
    eq_result.done =>
        (<<prop_a.name, prop_a.instance, prop_a.entity, prop_a.where>>
            # <<prop_b.name, prop_b.instance, prop_b.entity, prop_b.where>>
         => eq_result.id_a # eq_result.id_b)


(***************************************************************************)
(* Specification SpecFrequencies: compute_metrics for lists of grouping    *)
(* properties against a repository in memory, a SQL repository on the      *)
(* connection of the engine, and a SQL repository on another connection    *)
(***************************************************************************)
InitFrequencies ==
    /\ engine_table \in GroupingTables
    /\ run_analyzers \in DistinctLists(GroupingProps, MaxAnalyzers)
    /\ engine_implicit_cast = FALSE
    /\ analysis = [no_sharing \in BOOLEAN |-> NotYet]
    /\ engine_duplicate_names = "renamed"
    /\ compute_repo \in {InMemoryMetadataRepository, LocalMetadataRepository,
                         SQLMetadataRepository("run")}
    /\ computed = [no_sharing \in BOOLEAN |-> NotYet]
    /\ ProcessIdle
    /\ FrameIdle
    /\ RepoIdle
    /\ LaterIdle
    /\ CheckIdle
    /\ PropIdle
    /\ MergeIdle
    /\ PartitionIdle

SpecFrequencies == InitFrequencies /\ [][NextCompute]_vars

\* the positions of a run at which a table was created in the engine, and
\* in the repository
EngineCreations(run, table) ==
    {i \in DOMAIN run.events :
        run.events[i].ev = "execute_and_store" /\ run.events[i].table = table}

RepositoryCreations(run, table) ==
    {i \in DOMAIN run.events :
        run.events[i].ev = "store_table" /\ run.events[i].table = table}

\* the positions at which a FrequenciesAndNumRows state with the id of the
\* property was registered
FrequenciesRegistered(run, p) ==
    {i \in DOMAIN run.events :
        /\ run.events[i].ev = "register_state"
        /\ run.events[i].state.variant = "FrequenciesAndNumRows"
        /\ run.events[i].state.id = property_identifier(p)}

\* the frequencies tables of the grouping buckets of the requested properties
FrequenciesTables ==
    {get_frequency_table_name(compute_repo,
        identifier(Grouping(ColumnsOf(p), "count" \o filter_identifier(p), p.where))) :
            p \in Range(run_analyzers)}

\* the run got as far as the inner loop of a grouping pass
GroupingReached(run) ==
    \E i \in DOMAIN run.events :
        run.events[i].ev = "execute_and_fetch" /\ run.events[i].from \in FrequenciesTables
            /\ run.events[i].aggregations # {}

\* C30: in a run every frequencies table is created at most once in the
\* engine and at most once in the repository, and a run that derived the
\* metrics of its grouping operators registered exactly one
\* FrequenciesAndNumRows state under the property id of each of them.
C30_FrequenciesOnce ==
    \A no_sharing \in BOOLEAN :
        computed[no_sharing].done =>
            /\ \A t \in FrequenciesTables :
                    /\ Cardinality(EngineCreations(computed[no_sharing], t)) <= 1
                    /\ Cardinality(RepositoryCreations(computed[no_sharing], t)) <= 1
            /\ (computed[no_sharing].raised \notin
                    {"ValueError", "ZeroDivisionError", "UnboundLocalError"}
                /\ GroupingReached(computed[no_sharing])) =>
                    \A p \in Range(run_analyzers) :
                        Cardinality(FrequenciesRegistered(computed[no_sharing], p)) = 1

====
